---- MODULE Spec2Model ----
(***************************************************************************)
(* Session state and human-handoff orchestration of the Achora chatbot:    *)
(* SessionService (conversation record, cooldown), RedisService (durable   *)
(* store with TTLs), SlackService (pending requests, agent accept / end,   *)
(* timers) and ChatController (routing of inbound visitor messages).       *)
(*                                                                         *)
(* Time is counted in units of five minutes (300 s), the greatest common   *)
(* divisor of every TTL and timer delay in the code.  Date.now() is the    *)
(* variable now and is always positive; the value 0 stands for null.       *)
(***************************************************************************)
EXTENDS Integers, FiniteSets, Sequences, TLC

----------------------------------------------------------------------------
(* Bounds of the model *)
MaxTime == 3
MaxMsgs == 2
MaxClock == 14

(* Program constants, in units of 300 s *)
HandoffTtl == 2
ReconnectTtl == 1
TimerTtl == 2
ActiveTtl == 12
SessionTtl == 12
HandoffTimeoutDelay == 2
InactivityDelay == 2
oneHourMs == 12

NONE == "none"

P == {"p1"}
S == {"s1", "s2", "s3", "s4"}
Agents == {"a1", "a2"}

\* the durable identity a browser session sends with its requests
PersistentOf(s) == IF s \in {"s1", "s2"} THEN "p1" ELSE NONE

SEEKING_HANDOFF == "seeking_handoff"
CALLBACK_REQUEST == "callback_request"
LEAD_CAPTURE == "lead_capture"
NORMAL_CHAT == "normal_chat"
HUMAN_CONNECTED == "human_connected"
SessionState == {SEEKING_HANDOFF, CALLBACK_REQUEST, LEAD_CAPTURE, NORMAL_CHAT, HUMAN_CONNECTED}

VARIABLES
    now,                      \* Date.now()
    isConnected,              \* RedisService.isConnected
    userState,                \* redis hash user:<pid>
    sessionMapping,           \* redis key session:<sid>
    handoffState,             \* redis key handoff:<pid>
    timerStart,               \* redis key timer:<pid>
    activeSessions,           \* redis hash activeSessions
    activeTtl,                \* redis key session:<pid>:ttl
    sessionStateKey,          \* redis key session_state:<pid>
    sessions,                 \* SessionService.sessions
    handoffTimeouts,          \* SlackService.handoffTimeouts
    userInactivityTimeouts,   \* SlackService.userInactivityTimeouts
    updateIntervals,          \* SlackService.updateIntervals
    sessionDurationIntervals, \* SlackService.sessionDurationIntervals
    waitingSessions,          \* SlackService.waitingSessions
    scheduled,                \* timers of setTimeout/setInterval not yet cleared or run out
    inactivityRun,            \* inactivity callbacks waiting for chat.postMessage
    slackMessages,            \* messages of the Slack channel
    leads,                    \* rows of the Lead table
    emitted,                  \* socket events emitted by the last step
    lastReply,                \* result of the last handler that returned
    accept,                   \* one handleAcceptButton invocation per agent
    retry,                    \* one retryWithBackoff invocation
    conversation,             \* redis key conversation:<id>
    interactions,             \* the exchanges given to addMessage so far, oldest first
    held                      \* SessionService calls waiting for the store's answer

vars == <<now, isConnected, userState, sessionMapping, handoffState, timerStart,
          activeSessions, activeTtl, sessionStateKey, sessions, handoffTimeouts,
          userInactivityTimeouts, updateIntervals, sessionDurationIntervals,
          waitingSessions, scheduled, inactivityRun, slackMessages, leads,
          emitted, lastReply, accept, retry, conversation, interactions, held>>

----------------------------------------------------------------------------
(* Absent values *)
NoUser == [currentSessionId |-> NONE, agentConnected |-> FALSE]
NoHandoff == [sessionId |-> NONE, messageTs |-> 0, requestTime |-> 0, exp |-> 0]
NoTimerStart == [start |-> 0, exp |-> 0]
NoActive == [agentId |-> NONE, threadTs |-> 0, connectedAt |-> 0, currentSessionId |-> NONE]
NoSession == [state |-> NONE, lastActivity |-> 0, handoffOffered |-> FALSE, lastHandoffTime |-> 0]
NoSessionKey == [rec |-> NoSession, exp |-> 0]
NoTimeout == [due |-> 0, sessionId |-> NONE]
NoInterval == [live |-> FALSE, sessionId |-> NONE, messageTs |-> 0]
NoWaiting == [messageTs |-> 0, requestTime |-> 0, persistentUserId |-> NONE]
NoMessage == [status |-> "none", value |-> NONE]
NoReply == [op |-> NONE, id |-> NONE, status |-> NONE, message |-> NONE]
IdleAccept == [pc |-> "idle", identifier |-> NONE, messageTs |-> 0,
               persistentUserId |-> NONE, sessionId |-> NONE,
               status |-> NONE, agentName |-> NONE]
NoOutcome == [ok |-> FALSE, value |-> NONE, status |-> 0, code |-> NONE, timeout |-> FALSE]
IdleRetry == [pc |-> "idle", retries |-> 0, calls |-> 0, delays |-> <<>>,
              last |-> NoOutcome, result |-> NoOutcome]
NoConversation == [history |-> <<>>, exp |-> 0]
NoCall == [op |-> NONE, redisSession |-> NoSession]
\* the identifier of a conversation: persistentUserId || sessionId
ConversationIds == P \cup {s \in S : PersistentOf(s) = NONE}

\* the store and the in-process maps as one value, threaded through a handler
World == [userState |-> userState, sessionMapping |-> sessionMapping,
          handoffState |-> handoffState, timerStart |-> timerStart,
          activeSessions |-> activeSessions, activeTtl |-> activeTtl,
          sessionStateKey |-> sessionStateKey, sessions |-> sessions,
          handoffTimeouts |-> handoffTimeouts,
          userInactivityTimeouts |-> userInactivityTimeouts,
          updateIntervals |-> updateIntervals,
          sessionDurationIntervals |-> sessionDurationIntervals,
          waitingSessions |-> waitingSessions, scheduled |-> scheduled,
          inactivityRun |-> inactivityRun, slackMessages |-> slackMessages,
          leads |-> leads, conversation |-> conversation, emitted |-> {}]

CommitWorld(w) ==
    /\ userState' = w.userState
    /\ sessionMapping' = w.sessionMapping
    /\ handoffState' = w.handoffState
    /\ timerStart' = w.timerStart
    /\ activeSessions' = w.activeSessions
    /\ activeTtl' = w.activeTtl
    /\ sessionStateKey' = w.sessionStateKey
    /\ sessions' = w.sessions
    /\ handoffTimeouts' = w.handoffTimeouts
    /\ scheduled' = w.scheduled
    /\ inactivityRun' = w.inactivityRun
    /\ userInactivityTimeouts' = w.userInactivityTimeouts
    /\ updateIntervals' = w.updateIntervals
    /\ sessionDurationIntervals' = w.sessionDurationIntervals
    /\ waitingSessions' = w.waitingSessions
    /\ slackMessages' = w.slackMessages
    /\ leads' = w.leads
    /\ conversation' = w.conversation
    /\ emitted' = w.emitted

Commit(w) == CommitWorld(w) /\ UNCHANGED <<retry, interactions, held>>

\* the value of e, computed once, given to F
Bind(e, F(_)) == CHOOSE r \in {F(x) : x \in {e}} : TRUE

Emit(w, s, event) == [w EXCEPT !.emitted = @ \cup {<<s, event>>}]

----------------------------------------------------------------------------
(* RedisService *)

\* a key written with setEx is there until its expiry time
Live(exp) == exp > now

getUserState(w, id) ==
    IF isConnected /\ id \in P THEN w.userState[id] ELSE NoUser

setUserState(w, p, sid) ==
    IF isConnected /\ p \in P
    THEN [w EXCEPT !.userState[p] = [currentSessionId |-> sid, agentConnected |-> TRUE]]
    ELSE w

updateCurrentSession(w, p, sid) ==
    IF isConnected /\ p \in P
    THEN [w EXCEPT !.userState[p].currentSessionId = sid]
    ELSE w

deleteUserState(w, p) ==
    IF isConnected /\ p \in P THEN [w EXCEPT !.userState[p] = NoUser] ELSE w

setSessionMapping(w, sid, p) ==
    IF isConnected /\ sid \in S THEN [w EXCEPT !.sessionMapping[sid] = p] ELSE w

getSessionMapping(w, sid) ==
    IF isConnected /\ sid \in S THEN w.sessionMapping[sid] ELSE NONE

setHandoffState(w, p, data, ttl) ==
    IF isConnected /\ p \in P
    THEN [w EXCEPT !.handoffState[p] = [data EXCEPT !.exp = now + ttl]]
    ELSE w

getHandoffState(w, p) ==
    IF isConnected /\ p \in P /\ Live(w.handoffState[p].exp)
    THEN w.handoffState[p] ELSE NoHandoff

deleteHandoffState(w, p) ==
    IF isConnected /\ p \in P THEN [w EXCEPT !.handoffState[p] = NoHandoff] ELSE w

setTimerStart(w, p) ==
    IF isConnected /\ p \in P
    THEN [w EXCEPT !.timerStart[p] = [start |-> now, exp |-> now + TimerTtl]]
    ELSE w

getTimerStart(w, p) ==
    IF isConnected /\ p \in P /\ Live(w.timerStart[p].exp)
    THEN w.timerStart[p].start ELSE 0

deleteTimer(w, p) ==
    IF isConnected /\ p \in P THEN [w EXCEPT !.timerStart[p] = NoTimerStart] ELSE w

setActiveSession(w, p, data, ttl) ==
    IF isConnected /\ p \in P
    THEN [w EXCEPT !.activeSessions[p] = data, !.activeTtl[p] = now + ttl]
    ELSE w

\* getActiveSession with the test of the ttl key inverted
getActiveSessionInverted(w, p) ==
    IF ~(isConnected /\ p \in P) THEN [w |-> w, r |-> NoActive]
    ELSE IF Live(w.activeTtl[p])
         THEN [w |-> [w EXCEPT !.activeSessions[p] = NoActive], r |-> NoActive]
         ELSE [w |-> w, r |-> w.activeSessions[p]]

\* read of the hash entry and of its ttl key; an entry without ttl key is removed
getActiveSession(w, p) ==
    IF ~(isConnected /\ p \in P) THEN [w |-> w, r |-> NoActive]
    ELSE IF ~Live(w.activeTtl[p])
         THEN [w |-> [w EXCEPT !.activeSessions[p] = NoActive], r |-> NoActive]
         ELSE [w |-> w, r |-> w.activeSessions[p]]

deleteActiveSession(w, p) ==
    IF isConnected /\ p \in P
    THEN [w EXCEPT !.activeSessions[p] = NoActive, !.activeTtl[p] = 0]
    ELSE w

\* updateActiveSessionId writing the hash entry alone, the ttl key left as it is
updateActiveSessionIdKeepsTtl(w, p, sid) ==
    IF ~isConnected THEN w
    ELSE LET g == getActiveSession(w, p) IN
         IF g.r # NoActive
         THEN [g.w EXCEPT !.activeSessions[p] = [g.r EXCEPT !.currentSessionId = sid]]
         ELSE g.w

updateActiveSessionId(w, p, sid) ==
    IF ~isConnected THEN w
    ELSE LET g == getActiveSession(w, p) IN
         IF g.r # NoActive
         THEN setActiveSession(g.w, p, [g.r EXCEPT !.currentSessionId = sid], ActiveTtl)
         ELSE g.w

----------------------------------------------------------------------------
(* SessionService *)

defaultSession ==
    [state |-> SEEKING_HANDOFF, lastActivity |-> now,
     handoffOffered |-> FALSE, lastHandoffTime |-> 0]

getSessionFromRedis(w, p) ==
    IF isConnected /\ p \in P /\ Live(w.sessionStateKey[p].exp)
    THEN w.sessionStateKey[p].rec ELSE NoSession

saveSessionToRedis(w, p, sessionData) ==
    IF isConnected /\ p \in P
    THEN [w EXCEPT !.sessionStateKey[p] = [rec |-> sessionData, exp |-> now + SessionTtl]]
    ELSE w

\* saves the cached record of s when a durable identity and the store are there
saveIfPersistent(w, s, p) ==
    IF p # NONE /\ isConnected
    THEN Bind(w, LAMBDA w1 : saveSessionToRedis(w1, p, w1.sessions[s]))
    ELSE w

\* getSession looking in the in-process map before the store
getSessionOfSessionId(w, s, p) ==
    IF w.sessions[s] # NoSession THEN w
    ELSE LET redisSession == IF p # NONE /\ isConnected
                             THEN getSessionFromRedis(w, p) ELSE NoSession IN
         IF redisSession # NoSession
         THEN [w EXCEPT !.sessions[s] = redisSession]
         ELSE saveIfPersistent([w EXCEPT !.sessions[s] = defaultSession], s, p)

\* the record returned by the code is the object held in sessions under s
getSession(w, s, p) ==
    LET redisSession == IF p # NONE /\ isConnected
                        THEN getSessionFromRedis(w, p) ELSE NoSession IN
    IF redisSession # NoSession
    THEN [w EXCEPT !.sessions[s] = redisSession]
    ELSE IF w.sessions[s] = NoSession
         THEN saveIfPersistent([w EXCEPT !.sessions[s] = defaultSession], s, p)
         ELSE w

getSessionState(w, s, p) ==
    Bind(IF p # NONE /\ isConnected
         THEN getActiveSession(w, p) ELSE [w |-> w, r |-> NoActive],
         LAMBDA g :
           Bind(getSession(g.w, s, p),
                LAMBDA w1 :
                  IF g.r # NoActive
                  THEN Bind([w1 EXCEPT !.sessions[s].state = HUMAN_CONNECTED],
                            LAMBDA w2 : [w |-> saveSessionToRedis(w2, p, w2.sessions[s]),
                                         r |-> HUMAN_CONNECTED])
                  ELSE [w |-> w1, r |-> w1.sessions[s].state]))

\* setSessionState after its validation, up to the read of the previous state
setSessionStateBegin(w, s, p) == getSessionState(w, s, p).w

\* setSessionState writing a record made anew in the given state
setSessionStateEndAnew(w, s, state, p) ==
    saveIfPersistent([getSession(w, s, p) EXCEPT
                         !.sessions[s] = [defaultSession EXCEPT !.state = state]], s, p)

\* setSessionState from the read of the record to the save
setSessionStateEnd(w, s, state, p) ==
    LET w2 == getSession(w, s, p)
        w3 == [w2 EXCEPT !.sessions[s].state = state,
                         !.sessions[s].lastActivity = now]
    IN saveIfPersistent(w3, s, p)

\* setSessionState without the validation of the new value
setSessionStateUnchecked(w, s, state, p) ==
    setSessionStateEnd(setSessionStateBegin(w, s, p), s, state, p)

setSessionState(w, s, state, p) ==
    IF state \notin SessionState THEN w
    ELSE setSessionStateEnd(setSessionStateBegin(w, s, p), s, state, p)

updateSessionActivity(w, s, p) ==
    LET w1 == getSession(w, s, p)
        w2 == [w1 EXCEPT !.sessions[s].lastActivity = now]
    IN saveIfPersistent(w2, s, p)

\* getSession from the answer of the store on: redisSession is what the store
\* held when it served the GET, parsed into an object of its own
getSessionEnd(w, s, p, redisSession) ==
    IF redisSession # NoSession
    THEN [w EXCEPT !.sessions[s] = redisSession]
    ELSE IF w.sessions[s] = NoSession
         THEN saveIfPersistent([w EXCEPT !.sessions[s] = defaultSession], s, p)
         ELSE w

\* updateSessionActivity and markHandoffOffered from the answer of the store to
\* their getSession on
sessionCallEnd(w, s, p, call) ==
    LET w1 == getSessionEnd(w, s, p, call.redisSession)
        w2 == IF call.op = "updateSessionActivity"
              THEN [w1 EXCEPT !.sessions[s].lastActivity = now]
              ELSE [w1 EXCEPT !.sessions[s].handoffOffered = TRUE]
    IN saveIfPersistent(w2, s, p)

\* hasHandoffBeenOffered forgetting the offer
hasHandoffBeenOfferedNever(w, s, p) ==
    Bind(getSession(w, s, p), LAMBDA w1 : [w |-> w1, r |-> FALSE])

hasHandoffBeenOffered(w, s, p) ==
    Bind(getSession(w, s, p),
         LAMBDA w1 : [w |-> w1, r |-> w1.sessions[s].handoffOffered])

markHandoffOffered(w, s, p) ==
    LET w1 == getSession(w, s, p)
        w2 == [w1 EXCEPT !.sessions[s].handoffOffered = TRUE]
    IN saveIfPersistent(w2, s, p)

\* the comparison with > in place of >=
canRequestStrict(lastHandoffTime, t) ==
    IF lastHandoffTime = 0 THEN TRUE
    ELSE t - lastHandoffTime > oneHourMs

\* the comparison of canRequestHandoffAgain on a record's lastHandoffTime
canRequest(lastHandoffTime, t) ==
    IF lastHandoffTime = 0 THEN TRUE
    ELSE t - lastHandoffTime >= oneHourMs

canRequestHandoffAgain(w, s, p) ==
    Bind(getSession(w, s, p),
         LAMBDA w1 : [w |-> w1, r |-> canRequest(w1.sessions[s].lastHandoffTime, now)])

\* markHumanHandoffDeclined going straight to the callback request
markHumanHandoffDeclinedToCallback(w, s, p) == setSessionState(w, s, CALLBACK_REQUEST, p)

markHumanHandoffDeclined(w, s, p) == setSessionState(w, s, LEAD_CAPTURE, p)

markCallbackRequested(w, s, p) == setSessionState(w, s, CALLBACK_REQUEST, p)

markLeadCaptured(w, s, p) == setSessionState(w, s, NORMAL_CHAT, p)

\* markHumanHandoffAccepted without the record of the time of the claim
markHumanHandoffAcceptedUnstamped(w, s, p) ==
    setSessionStateBegin(saveIfPersistent(getSession(w, s, p), s, p), s, p)

\* markHumanHandoffAccepted up to the read of the previous state in setSessionState
markHumanHandoffAcceptedBegin(w, s, p) ==
    LET w1 == getSession(w, s, p)
        w2 == [w1 EXCEPT !.sessions[s].lastHandoffTime = now]
        w3 == saveIfPersistent(w2, s, p)
    IN setSessionStateBegin(w3, s, p)

markHumanHandoffAccepted(w, s, p) ==
    setSessionStateEnd(markHumanHandoffAcceptedBegin(w, s, p), s, NORMAL_CHAT, p)

----------------------------------------------------------------------------
(* SlackService: identity mapping and timers *)

mapUserToSession(w, p, s) ==
    updateActiveSessionId(setSessionMapping(updateCurrentSession(w, p, s), s, p), p, s)

\* the timer behind a handle returned by setTimeout or setInterval
Timer(kind, key, at) == [kind |-> kind, key |-> key, at |-> at]
TimersOf(sched, kind, key) == {t \in sched : t.kind = kind /\ t.key = key}

\* clearTimeout and clearInterval: nothing happens when the timer is gone
clearTimer(w, kind, key, at) ==
    [w EXCEPT !.scheduled = @ \ {Timer(kind, key, at)}]

clearHandoffTimeout(w, p) ==
    IF p \in P /\ w.handoffTimeouts[p] # NoTimeout
    THEN [clearTimer(w, "handoff", p, w.handoffTimeouts[p].due)
             EXCEPT !.handoffTimeouts[p] = NoTimeout]
    ELSE w

\* setTimeout(..., 600000), after cancelling the previous one
setHandoffTimeout(w, p, s) ==
    [clearHandoffTimeout(w, p) EXCEPT
        !.handoffTimeouts[p] = [due |-> now + HandoffTimeoutDelay, sessionId |-> s],
        !.scheduled = @ \cup {Timer("handoff", p, now + HandoffTimeoutDelay)}]

clearUserInactivityTimeout(w, p) ==
    IF p \in P /\ w.userInactivityTimeouts[p] # 0
    THEN [clearTimer(w, "inactivity", p, w.userInactivityTimeouts[p])
             EXCEPT !.userInactivityTimeouts[p] = 0]
    ELSE w

setUserInactivityTimeout(w, p) ==
    [clearUserInactivityTimeout(w, p) EXCEPT
        !.userInactivityTimeouts[p] = now + InactivityDelay,
        !.scheduled = @ \cup {Timer("inactivity", p, now + InactivityDelay)}]

\* updateIntervals is keyed by the persistentUserId argument, null included
IntervalKeys == P \cup {NONE}

\* an interval is named by the Slack message it keeps updating
startWaitingTimeUpdater(w, s, messageTs, k) ==
    [clearTimer(w, "waiting", k, w.updateIntervals[k].messageTs) EXCEPT
        !.updateIntervals[k] = [live |-> TRUE, sessionId |-> s, messageTs |-> messageTs],
        !.scheduled = @ \cup {Timer("waiting", k, messageTs)}]

stopWaitingTimeUpdater(w, k) ==
    LET w1 == IF k \in IntervalKeys
              THEN [clearTimer(w, "waiting", k, w.updateIntervals[k].messageTs)
                       EXCEPT !.updateIntervals[k] = NoInterval]
              ELSE w
    IN deleteHandoffState(deleteTimer(w1, k), k)

startSessionDurationUpdater(w, p, messageTs) ==
    LET w1 == [clearTimer(w, "duration", p, w.sessionDurationIntervals[p].messageTs)
                  EXCEPT !.sessionDurationIntervals[p].live = FALSE]
        g == getActiveSession(w1, p)
    IN IF g.r = NoActive THEN g.w
       ELSE [g.w EXCEPT !.sessionDurationIntervals[p] =
                            [live |-> TRUE, sessionId |-> NONE, messageTs |-> messageTs],
                        !.scheduled = @ \cup {Timer("duration", p, messageTs)}]

stopSessionDurationUpdater(w, k) ==
    IF k \in P
    THEN [clearTimer(w, "duration", k, w.sessionDurationIntervals[k].messageTs)
             EXCEPT !.sessionDurationIntervals[k] = NoInterval]
    ELSE w

\* a Slack message: "open" shows the Accept button, "accepted" the End Chat
\* button, "closed" no button; value is the value carried by the button
Msgs == 1 .. MaxMsgs
FreeMsgs(w) == {m \in Msgs : w.slackMessages[m].status = "none"}
NewTs(w) == CHOOSE m \in FreeMsgs(w) : \A n \in FreeMsgs(w) : m <= n

chatUpdate(w, ts, status, value) ==
    IF ts \in Msgs
    THEN [w EXCEPT !.slackMessages[ts] = [status |-> status, value |-> value]]
    ELSE w

----------------------------------------------------------------------------
(* SlackService: cleanup helpers *)

forceEndSession(w, s) ==
    LET p == getSessionMapping(w, s) IN
    IF p # NONE
    THEN LET w1 == deleteHandoffState(deleteUserState(deleteActiveSession(w, p), p), p)
         IN clearUserInactivityTimeout(
                clearHandoffTimeout(stopSessionDurationUpdater(w1, p), p), p)
    ELSE w

cleanupSessionData(w, p, s) ==
    LET w1 == IF p # NONE
              THEN deleteHandoffState(deleteUserState(deleteActiveSession(w, p), p), p)
              ELSE w
        w2 == IF p # NONE
              THEN stopWaitingTimeUpdater(
                       clearUserInactivityTimeout(clearHandoffTimeout(w1, p), p), p)
              ELSE w1
    IN IF s # NONE THEN stopSessionDurationUpdater(w2, s) ELSE w2

forceEndSessionByPersistentUserId(w, p) ==
    LET currentSessionId == getUserState(w, p).currentSessionId IN
    IF currentSessionId # NONE
    THEN forceEndSession(w, currentSessionId)
    ELSE cleanupSessionData(w, p, NONE)

reconnectPersistentUser(w, p, newSessionId) ==
    LET pendingHandoff == getHandoffState(w, p) IN
    IF pendingHandoff # NoHandoff
    THEN setHandoffState(mapUserToSession(w, p, newSessionId), p,
                         [pendingHandoff EXCEPT !.sessionId = newSessionId],
                         ReconnectTtl)
    ELSE IF getUserState(w, p).agentConnected
         THEN mapUserToSession(w, p, newSessionId)
         ELSE w

\* called by the decline route; both isSessionWaiting tests are on a pending
\* promise and never stop it
handleWaitingSessionDisconnect(w, s, slackOk) ==
    LET waitingSession == w.waitingSessions[s] IN
    IF waitingSession.persistentUserId # NONE THEN w
    ELSE LET w1 == stopWaitingTimeUpdater(w, s)
             w2 == IF waitingSession.messageTs # 0 /\ slackOk
                   THEN chatUpdate(w1, waitingSession.messageTs, "closed", NONE)
                   ELSE w1
         IN [w2 EXCEPT !.waitingSessions[s] = NoWaiting]

isSessionWaiting(w, s) ==
    LET p == getSessionMapping(w, s) IN
    p # NONE /\ getHandoffState(w, p) # NoHandoff

\* disconnectSession removing the connection of a visitor with a durable identity
disconnectSessionOfAnyone(w, s) ==
    LET p == getSessionMapping(w, s) IN
    stopSessionDurationUpdater(deleteActiveSession(w, p), p)

\* the legacy clean-up is keyed by the session id
disconnectSession(w, s) ==
    IF getSessionMapping(w, s) # NONE THEN w
    ELSE stopSessionDurationUpdater(deleteActiveSession(w, s), s)

----------------------------------------------------------------------------
(* SlackService: handlers.  slackOk is the outcome of the Slack API call. *)

Result(w, status, message) == [w |-> w, status |-> status, message |-> message]

requestHumanAgent(w, s, p, slackOk) ==
    LET w1 == IF p # NONE THEN mapUserToSession(w, p, s) ELSE w
        existingRequest == IF p # NONE THEN getHandoffState(w1, p) ELSE NoHandoff
    IN IF existingRequest # NoHandoff
       THEN Result(Emit(setHandoffState(w1, p, [existingRequest EXCEPT !.sessionId = s],
                                        ReconnectTtl),
                        s, "agent_waiting"),
                   "human_requested", "still_active")
       ELSE IF ~slackOk THEN Result(w1, "error", NONE)
       ELSE
         LET ts == NewTs(w1)
             w2 == chatUpdate(w1, ts, "open", IF p # NONE THEN p ELSE s)
             w3 == [w2 EXCEPT !.waitingSessions[s] =
                       [messageTs |-> ts, requestTime |-> now, persistentUserId |-> p]]
             w4 == IF p # NONE
                   THEN setHandoffTimeout(
                          setTimerStart(
                            setHandoffState(w3, p,
                               [sessionId |-> s, messageTs |-> ts,
                                requestTime |-> now, exp |-> 0], HandoffTtl), p), p, s)
                   ELSE w3
         IN Result(startWaitingTimeUpdater(w4, s, ts, p), "human_requested", "sent")

\* getAllActiveSessions drops the hash entries whose ttl key is gone
getAllActiveSessions(w) ==
    IF ~isConnected THEN w
    ELSE [w EXCEPT !.activeSessions =
            [q \in P |-> IF Live(w.activeTtl[q]) THEN @[q] ELSE NoActive]]

\* sendToHuman without the cleanup of a connection whose thread is gone
sendToHumanKeepsSession(w, s, p, slackRes) ==
    LET g == IF p # NONE THEN getActiveSession(w, p) ELSE [w |-> w, r |-> NoActive]
    IN IF g.r = NoActive THEN Result(g.w, "error", "no_agent")
       ELSE IF slackRes = "ok"
            THEN Result(IF p # NONE THEN setUserInactivityTimeout(g.w, p) ELSE g.w,
                        "sent_to_human", NONE)
       ELSE IF slackRes = "thread_not_found"
            THEN Result(g.w, "thread_deleted", NONE)
       ELSE Result(g.w, "error", "send_failed")

\* slackRes is "ok", "thread_not_found" or "error"
sendToHuman(w, s, p, slackRes) ==
    LET w0 == getAllActiveSessions(w)
        g1 == IF p # NONE THEN getActiveSession(w0, p) ELSE [w |-> w0, r |-> NoActive]
        mappedUserId == getSessionMapping(g1.w, s)
        g2 == IF g1.r = NoActive /\ mappedUserId # NONE
              THEN getActiveSession(g1.w, mappedUserId) ELSE g1
    IN IF g2.r = NoActive THEN Result(g2.w, "error", "no_agent")
       ELSE IF slackRes = "ok"
            THEN Result(IF p # NONE THEN setUserInactivityTimeout(g2.w, p) ELSE g2.w,
                        "sent_to_human", NONE)
       ELSE IF slackRes = "thread_not_found"
            THEN Result(forceEndSession(g2.w, s), "thread_deleted", NONE)
       ELSE Result(g2.w, "error", "send_failed")

handleEndChatButton(w, identifier, messageTs, slackOk) ==
    LET g1 == getActiveSession(w, identifier)
        byUser == g1.r # NoActive
        p == IF byUser THEN identifier ELSE getSessionMapping(g1.w, identifier)
        g2 == IF byUser THEN g1
              ELSE IF p # NONE THEN getActiveSession(g1.w, p)
              ELSE [w |-> g1.w, r |-> NoActive]
        sessionId == IF byUser THEN g1.r.currentSessionId ELSE identifier
    IN IF g2.r = NoActive THEN Result(g2.w, "session_not_found", NONE)
       ELSE LET w1 == stopSessionDurationUpdater(g2.w, p) IN
            IF ~slackOk THEN Result(w1, "error", NONE)
            ELSE LET w2 == chatUpdate(w1, messageTs, "closed", NONE)
                     w3 == Emit(w2, sessionId, "agent_disconnected")
                     w4 == clearUserInactivityTimeout(deleteActiveSession(w3, p), p)
                 IN Result(w4, "ended", NONE)

\* a message of the agent in the thread threadTs; slackRes is the outcome of
\* the look at the thread that follows the emit
handleAgentMessage(w, threadTs, slackRes) ==
    LET w0 == getAllActiveSessions(w)
        found == IF isConnected
                 THEN {p \in P : /\ w0.activeSessions[p] # NoActive
                                 /\ w0.activeSessions[p].threadTs = threadTs}
                 ELSE {}
    IN IF found = {} THEN Result(w0, "no_session", NONE)
       ELSE LET session == w0.activeSessions[CHOOSE p \in found : TRUE] IN
            IF session.currentSessionId = NONE THEN Result(w0, "sent_to_user", NONE)
            ELSE LET w1 == Emit(w0, session.currentSessionId, "agent_message") IN
                 IF slackRes = "thread_not_found"
                 THEN Result(forceEndSession(w1, session.currentSessionId),
                             "thread_deleted", NONE)
                 ELSE Result(w1, "sent_to_user", NONE)

\* the handoff-timeout callback without the reset of the state and without
\* the notification of the visitor
handoffTimeoutCallbackSilent(w, p, slackOk) ==
    LET w3 == stopWaitingTimeUpdater(deleteTimer(deleteHandoffState(w, p), p), p)
    IN [w3 EXCEPT !.handoffTimeouts[p] = NoTimeout,
                  !.scheduled = @ \ {Timer("handoff", p, w.handoffTimeouts[p].due)}]

\* the callback registered by setHandoffTimeout
handoffTimeoutCallback(w, p, slackOk) ==
    LET handoff == getHandoffState(w, p)
        w1 == IF handoff # NoHandoff /\ handoff.messageTs # 0 /\ slackOk
              THEN chatUpdate(w, handoff.messageTs, "closed", NONE) ELSE w
        userSession == getUserState(w1, p).currentSessionId
        currentSessionId == IF userSession # NONE THEN userSession
                            ELSE w.handoffTimeouts[p].sessionId
        w2 == IF currentSessionId # NONE
              THEN Emit(setSessionState(w1, currentSessionId, SEEKING_HANDOFF, p),
                        currentSessionId, "handoff_timeout")
              ELSE w1
        w3 == stopWaitingTimeUpdater(deleteTimer(deleteHandoffState(w2, p), p), p)
    IN [w3 EXCEPT !.handoffTimeouts[p] = NoTimeout,
                  !.scheduled = @ \ {Timer("handoff", p, w.handoffTimeouts[p].due)}]

\* the callback registered by setUserInactivityTimeout, up to the call of
\* slack.chat.update: the timer at has run out, the connection is read
inactivityTimeoutBegin(w, p, at) ==
    LET g == getActiveSession(clearTimer(w, "inactivity", p, at), p) IN
    IF g.r # NoActive
    THEN [g.w EXCEPT !.inactivityRun[p] = g.r]
    ELSE [g.w EXCEPT !.userInactivityTimeouts[p] = 0]

\* the rest of the callback, from the answer of slack.chat.update on
inactivityTimeoutEnd(w, p, slackOk) ==
    LET active == w.inactivityRun[p]
        w1 == IF slackOk
              THEN forceEndSessionByPersistentUserId(
                       Emit(chatUpdate(w, active.threadTs, "closed", NONE),
                            active.currentSessionId, "agent_disconnected"), p)
              ELSE w
    IN [w1 EXCEPT !.userInactivityTimeouts[p] = 0, !.inactivityRun[p] = NoActive]

\* the callback running with no other handler in between
inactivityTimeoutCallback(w, p, slackOk) ==
    LET w1 == inactivityTimeoutBegin(w, p, w.userInactivityTimeouts[p]) IN
    IF w1.inactivityRun[p] # NoActive THEN inactivityTimeoutEnd(w1, p, slackOk) ELSE w1

\* one run of the interval callback of startWaitingTimeUpdater
waitingTimeUpdate(w, k, slackOk) ==
    LET iv == w.updateIntervals[k] IN
    IF getTimerStart(w, k) = 0
    THEN [clearTimer(w, "waiting", k, iv.messageTs) EXCEPT !.updateIntervals[k] = NoInterval]
    ELSE IF slackOk
         THEN chatUpdate(w, iv.messageTs, "open", IF k # NONE THEN k ELSE iv.sessionId)
         ELSE [clearTimer(w, "waiting", k, iv.messageTs) EXCEPT !.updateIntervals[k].live = FALSE]

\* one run of the interval callback of startSessionDurationUpdater
sessionDurationUpdate(w, p, slackOk) ==
    LET g == getActiveSession(w, p)
        stopped == [clearTimer(g.w, "duration", p, w.sessionDurationIntervals[p].messageTs)
                       EXCEPT !.sessionDurationIntervals[p] = NoInterval]
    IN IF g.r = NoActive
       THEN stopped
       ELSE IF slackOk
            THEN chatUpdate(g.w, w.sessionDurationIntervals[p].messageTs, "accepted", p)
            ELSE stopped

----------------------------------------------------------------------------
(* HandoffService and AIService *)

\* shouldOffer is the verdict of the external handoff analysis
analyzeResponseForHandoff(w, s, p, shouldOffer) ==
    Bind(getSessionState(w, s, p),
         LAMBDA g :
           Bind(canRequestHandoffAgain(g.w, s, p),
                LAMBDA c :
                  IF g.r \in {CALLBACK_REQUEST, LEAD_CAPTURE, HUMAN_CONNECTED}
                  THEN [w |-> g.w, action |-> "continue_ai"]
                  ELSE IF g.r = NORMAL_CHAT /\ ~c.r
                  THEN [w |-> c.w, action |-> "continue_ai"]
                  ELSE IF g.r \notin {NORMAL_CHAT, SEEKING_HANDOFF}
                  THEN [w |-> g.w, action |-> "continue_ai"]
                  ELSE Bind(hasHandoffBeenOffered(
                                IF g.r = NORMAL_CHAT
                                THEN setSessionState(c.w, s, SEEKING_HANDOFF, p)
                                ELSE g.w, s, p),
                            LAMBDA h :
                              IF h.r THEN [w |-> h.w, action |-> "continue_ai"]
                              ELSE IF shouldOffer
                              THEN [w |-> h.w, action |-> "human_handoff"]
                              ELSE [w |-> h.w, action |-> "continue_ai"])))

\* a responder text without a lead marker
NoLead == [text |-> <<"ok">>, dbOk |-> TRUE]

\* the responder's text as its words, separators and line ends, with the
\* outcome of databaseService.captureLead: no marker; four fields with blanks
\* and a second line; three fields; five fields; nothing after the marker;
\* four fields over two lines; a second marker after four fields. The
\* database fails on a text whose fields reach it
Leads ==
    {[text |-> t, dbOk |-> b] :
       t \in {<<"ok">>,
              <<"ok", "LEAD_CAPTURED:", " ", "Ann", ",", " ", "Lee", " ", ",", "ann@x",
                ",", "0400", " ", "\n", "bye", ",", "now">>,
              <<"LEAD_CAPTURED:", "Ann", ",", "Lee", ",", "ann@x">>,
              <<"LEAD_CAPTURED:", "Ann", ",", "Lee", ",", "ann@x", ",", "0400", ",",
                "extra">>,
              <<"ok", "LEAD_CAPTURED:">>,
              <<"LEAD_CAPTURED:", "Ann", ",", "Lee", "\n", "ann@x", ",", "0400">>,
              <<"LEAD_CAPTURED:", "Ann", ",", "Lee", ",", "ann@x", ",", "0400",
                "LEAD_CAPTURED:", "Bob">>},
       b \in {TRUE}}
    \cup {[text |-> <<"LEAD_CAPTURED:", "Ann", ",", "Lee", ",", "ann@x", ",", "0400">>,
            dbOk |-> FALSE]}

\* the markers the responder puts in its text; the prompt asks for them in
\* CALLBACK_REQUEST mode only
Markers(sessionState, lead, escape) ==
    IF sessionState = CALLBACK_REQUEST
    THEN [lead |-> lead, escape |-> escape]
    ELSE [lead |-> NoLead, escape |-> FALSE]

\* conversationService.generateResponse: the text it returns is what Markers
\* tells of it; of the exchange it gives to memoryService.addMessage, the
\* session mapping written along with it
generateResponse(w, s, p) ==
    IF p # NONE THEN setSessionMapping(w, s, p) ELSE w

\* agreed: the message matches an agreement pattern
getChatResponse(w, s, p, agreed, shouldOffer, lead, escape) ==
    Bind(getSessionState(updateSessionActivity(w, s, p), s, p),
         LAMBDA g1 :
           IF g1.r = HUMAN_CONNECTED
           THEN [w |-> g1.w, type |-> "connected_notice", lead |-> NoLead,
                 escape |-> FALSE]
           ELSE
             Bind(getSessionState(IF g1.r = LEAD_CAPTURE /\ agreed
                                  THEN setSessionState(g1.w, s, CALLBACK_REQUEST, p)
                                  ELSE g1.w, s, p),
                  LAMBDA g2 :
                    Bind(IF g2.r = SEEKING_HANDOFF
                         THEN analyzeResponseForHandoff(generateResponse(g2.w, s, p),
                                                        s, p, shouldOffer)
                         ELSE [w |-> generateResponse(g2.w, s, p),
                               action |-> "continue_ai"],
                         LAMBDA a :
                           Bind(Markers(g2.r, lead, escape),
                                LAMBDA m :
                                  IF a.action = "human_handoff"
                                  THEN [w |-> markHandoffOffered(a.w, s, p),
                                        type |-> "human_handoff_suggestion",
                                        lead |-> m.lead, escape |-> m.escape]
                                  ELSE [w |-> a.w, type |-> "text",
                                        lead |-> m.lead, escape |-> m.escape]))))

----------------------------------------------------------------------------
(* ChatController *)

\* the parts handleLeadCapture reads from a text: what follows the first
\* marker up to the next one, its first line, split at the commas, each part
\* trimmed; found is FALSE when there is no marker or nothing after it
leadParts(botResponse) ==
    LET Least(I) == CHOOSE i \in I : \A j \in I : i <= j
        Upto(seq, stop) ==
            LET at == {i \in 1..Len(seq) : seq[i] = stop}
            IN IF at = {} THEN seq ELSE SubSeq(seq, 1, Least(at) - 1)
        Trim(seq) ==
            LET ink == {i \in 1..Len(seq) : seq[i] # " "}
            IN IF ink = {} THEN <<>>
               ELSE SubSeq(seq, Least(ink), CHOOSE i \in ink : \A j \in ink : j <= i)
        marks == {i \in 1..Len(botResponse) : botResponse[i] = "LEAD_CAPTURED:"}
        dataString ==
            IF marks = {} THEN <<>>
            ELSE Upto(SubSeq(botResponse, Least(marks) + 1, Len(botResponse)),
                      "LEAD_CAPTURED:")
        firstLine == Trim(Upto(dataString, "\n"))
        commas == {i \in 1..Len(firstLine) : firstLine[i] = ","}
        Comma(j) == IF j = 0 THEN 0
                    ELSE IF j > Cardinality(commas) THEN Len(firstLine) + 1
                    ELSE CHOOSE i \in commas :
                           Cardinality({c \in commas : c <= i}) = j
    IN [found |-> dataString # <<>>,
        parts |-> [j \in 1..(Cardinality(commas) + 1) |->
                     Trim(SubSeq(firstLine, Comma(j - 1) + 1, Comma(j) - 1))]]

\* handleLeadCapture asking for three parts where the code asks for four
handleLeadCaptureOfThree(w, s, p, lead) ==
    LET parsed == leadParts(lead.text) IN
    IF ~parsed.found \/ Len(parsed.parts) < 3 \/ ~lead.dbOk THEN w
    ELSE markLeadCaptured(
             [w EXCEPT !.leads = @ \cup {[firstName |-> parsed.parts[1],
                                          lastName |-> parsed.parts[2],
                                          email |-> parsed.parts[3],
                                          phone |-> IF Len(parsed.parts) >= 4
                                                    THEN parsed.parts[4] ELSE <<>>,
                                          sessionId |-> s]}], s, p)

\* lead.dbOk: databaseService.captureLead saves the row and does not throw
handleLeadCapture(w, s, p, lead) ==
    LET parsed == leadParts(lead.text) IN
    IF ~parsed.found \/ Len(parsed.parts) < 4 \/ ~lead.dbOk THEN w
    ELSE markLeadCaptured(
             [w EXCEPT !.leads = @ \cup {[firstName |-> parsed.parts[1],
                                          lastName |-> parsed.parts[2],
                                          email |-> parsed.parts[3],
                                          phone |-> parsed.parts[4],
                                          sessionId |-> s]}], s, p)

\* lead and escape markers of a response, as the default route handles them
processMarkers(w, s, p, lead, escape) ==
    Bind(handleLeadCapture(w, s, p, lead),
         LAMBDA w1 : IF escape THEN markLeadCaptured(w1, s, p) ELSE w1)

\* the reconnection done at the head of handleChatMessage
reconnection(w, s, p) ==
    IF p # NONE THEN reconnectPersistentUser(w, p, s) ELSE w

isSessionActive(w, s) ==
    LET p == getSessionMapping(w, s) IN
    IF p # NONE THEN getActiveSession(w, p) ELSE [w |-> w, r |-> NoActive]

\* Route 1 test: is an agent connected for the sender
isActive(w, s, p) ==
    IF p # NONE THEN getActiveSession(w, p) ELSE isSessionActive(w, s)

routeHandoffRequest(w, s, p, slackOk) ==
    requestHumanAgent(reconnection(w, s, p), s, p, slackOk)

routeDecline(w, s, p, slackOk) ==
    Bind(getSessionState(handleWaitingSessionDisconnect(reconnection(w, s, p), s, slackOk),
                         s, p),
         LAMBDA g :
           IF g.r # SEEKING_HANDOFF THEN Result(g.w, "bot_response", "ignored")
           ELSE Result(markHumanHandoffDeclined(g.w, s, p), "bot_response",
                       "lead_capture"))

routeCallback(w, s, p, shouldOffer, lead, escape) ==
    Bind(getSessionState(w, s, p),
         LAMBDA g :
           IF g.r # NORMAL_CHAT
           THEN Result(getChatResponse(markCallbackRequested(g.w, s, p), s, p,
                                       TRUE, shouldOffer, lead, escape).w,
                       "bot_response", "callback")
           ELSE Result(getSessionState(
                           getChatResponse(g.w, s, p, TRUE, shouldOffer, lead, escape).w,
                           s, p).w,
                       "bot_response", "normal"))

routeDefault(w, s, p, agreed, shouldOffer, lead, escape) ==
    Bind(getChatResponse(w, s, p, agreed, shouldOffer, lead, escape),
         LAMBDA r :
           Bind(processMarkers(r.w, s, p, r.lead, r.escape),
                LAMBDA w1 :
                  IF r.type = "human_handoff_suggestion"
                  THEN Result(markHandoffOffered(w1, s, p), "human_handoff_suggestion",
                              NONE)
                  ELSE Result(getSessionState(w1, s, p).w, "bot_response", r.type)))

\* handleChatMessage for the message kinds that reach Route 1 and beyond
Kinds == {"callback", "explicit_human", "chat"}
handleChatMessage(w, s, p, kind, slackRes, agreed, shouldOffer, lead, escape) ==
    Bind(isActive(reconnection(w, s, p), s, p),
         LAMBDA act :
           Bind(IF act.r # NoActive THEN sendToHuman(act.w, s, p, slackRes)
                ELSE Result(act.w, NONE, NONE),
                LAMBDA sent :
                  IF act.r # NoActive /\ sent.status # "thread_deleted" THEN sent
                  ELSE IF kind = "callback"
                  THEN routeCallback(sent.w, s, p, shouldOffer, lead, escape)
                  ELSE IF kind = "explicit_human"
                  THEN Result(sent.w, "human_handoff_suggestion", "explicit")
                  ELSE routeDefault(sent.w, s, p, agreed, shouldOffer, lead, escape)))

----------------------------------------------------------------------------
(* Initial state: nothing stored, no timer, no Slack message *)

(* OpenAIRetryService *)

maxRetries == 3
baseDelay == 1000

\* what one call of apiCall gives: a completion, or an error with its status,
\* its code and whether its message includes 'timeout'
Outcomes ==
    {[ok |-> TRUE, value |-> v, status |-> 0, code |-> NONE, timeout |-> FALSE] :
        v \in {"r1", "r2"}}
    \cup {[ok |-> FALSE, value |-> NONE, status |-> st, code |-> c, timeout |-> t] :
             st \in {0, 400, 401, 429, 500, 502, 503, 504},
             c \in {NONE, "ECONNRESET", "ETIMEDOUT", "ENOTFOUND"},
             t \in BOOLEAN}

isRetryableError(error) ==
    \/ error.status \in {429, 500, 502, 503, 504}
    \/ error.code = "ECONNRESET"
    \/ error.code = "ETIMEDOUT"
    \/ error.timeout

backoffDelayLinear(retries) == baseDelay * (maxRetries - retries + 1)

\* the delay before the next attempt, retries attempts being left
backoffDelay(retries) == baseDelay * 2 ^ (maxRetries - retries)

\* retryWithBackoff from its call of apiCall to its return, its throw or its
\* call of sleep
retryAttempt(r, outcome) ==
    LET r1 == [r EXCEPT !.calls = @ + 1, !.last = outcome] IN
    IF outcome.ok THEN [r1 EXCEPT !.pc = "returned", !.result = outcome]
    ELSE IF r.retries = 0 \/ ~isRetryableError(outcome)
         THEN [r1 EXCEPT !.pc = "threw", !.result = outcome]
         ELSE [r1 EXCEPT !.pc = "sleeping",
                         !.delays = Append(@, backoffDelay(r.retries))]

\* the sleep is over: retryWithBackoff(apiCall, retries - 1)
retryAgain(r) == [r EXCEPT !.pc = "calling", !.retries = @ - 1]

----------------------------------------------------------------------------
(* MemoryService *)

contextWindowLength == 5
conversationTTL == 12

\* Array.prototype.slice(-k) of a longer array
SliceLast(seq, k) == SubSeq(seq, Len(seq) - k + 1, Len(seq))

Pushed(w, identifier, userMessage, botResponse) ==
    w.conversation[identifier].history
      \o <<[role |-> "user", content |-> userMessage],
           [role |-> "assistant", content |-> botResponse]>>

addMessageKeepsOldest(w, s, p, userMessage, botResponse) ==
    IF ~isConnected THEN w
    ELSE LET identifier == IF p # NONE THEN p ELSE s
             pushed == Pushed(w, identifier, userMessage, botResponse)
             history == IF Len(pushed) > contextWindowLength * 2
                        THEN SubSeq(pushed, 1, contextWindowLength * 2)
                        ELSE pushed
             w1 == [w EXCEPT !.conversation[identifier] =
                       [history |-> history, exp |-> now + conversationTTL]]
         IN IF p # NONE THEN setSessionMapping(w1, s, p) ELSE w1

addMessage(w, s, p, userMessage, botResponse) ==
    IF ~isConnected THEN w
    ELSE LET identifier == IF p # NONE THEN p ELSE s
             pushed == Pushed(w, identifier, userMessage, botResponse)
             history == IF Len(pushed) > contextWindowLength * 2
                        THEN SliceLast(pushed, contextWindowLength * 2)
                        ELSE pushed
             w1 == [w EXCEPT !.conversation[identifier] =
                       [history |-> history, exp |-> now + conversationTTL]]
         IN IF p # NONE THEN setSessionMapping(w1, s, p) ELSE w1

----------------------------------------------------------------------------
Init ==
    /\ now = 1
    /\ isConnected \in BOOLEAN
    /\ userState = [p \in P |-> NoUser]
    /\ sessionMapping = [s \in S |-> NONE]
    /\ handoffState = [p \in P |-> NoHandoff]
    /\ timerStart = [p \in P |-> NoTimerStart]
    /\ activeSessions = [p \in P |-> NoActive]
    /\ activeTtl = [p \in P |-> 0]
    /\ sessionStateKey = [p \in P |-> NoSessionKey]
    /\ sessions = [s \in S |-> NoSession]
    /\ handoffTimeouts = [p \in P |-> NoTimeout]
    /\ userInactivityTimeouts = [p \in P |-> 0]
    /\ updateIntervals = [k \in IntervalKeys |-> NoInterval]
    /\ sessionDurationIntervals = [p \in P |-> NoInterval]
    /\ waitingSessions = [s \in S |-> NoWaiting]
    /\ scheduled = {}
    /\ inactivityRun = [p \in P |-> NoActive]
    /\ slackMessages = [m \in Msgs |-> NoMessage]
    /\ leads = {}
    /\ emitted = {}
    /\ lastReply = NoReply
    /\ accept = [a \in Agents |-> IdleAccept]
    /\ retry = IdleRetry
    /\ conversation = [id \in ConversationIds |-> NoConversation]
    /\ interactions = <<>>
    /\ held = [s \in S |-> NoCall]

----------------------------------------------------------------------------
(* Passage of time: keys written with an expiry disappear when it is reached *)

Expire(t) ==
    /\ handoffState' = [p \in P |-> IF handoffState[p].exp > t
                                    THEN handoffState[p] ELSE NoHandoff]
    /\ timerStart' = [p \in P |-> IF timerStart[p].exp > t
                                  THEN timerStart[p] ELSE NoTimerStart]
    /\ activeTtl' = [p \in P |-> IF activeTtl[p] > t THEN activeTtl[p] ELSE 0]
    /\ sessionStateKey' = [p \in P |-> IF sessionStateKey[p].exp > t
                                       THEN sessionStateKey[p] ELSE NoSessionKey]
    /\ conversation' = [id \in ConversationIds |->
                           IF conversation[id].exp > t
                           THEN conversation[id] ELSE NoConversation]

Advance(limit) ==
    /\ now < limit
    /\ now' = now + 1
    /\ Expire(now + 1)
    /\ emitted' = {}
    /\ lastReply' = NoReply
    /\ UNCHANGED <<isConnected, userState, sessionMapping, activeSessions, sessions,
                   handoffTimeouts, userInactivityTimeouts, updateIntervals,
                   sessionDurationIntervals, waitingSessions, scheduled,
                   inactivityRun, slackMessages, leads, accept, retry,
                   interactions, held>>

Tick == Advance(MaxTime)

----------------------------------------------------------------------------
(* Inbound visitor requests (ChatController.handleChatMessage) *)

Reply(op, id, r) ==
    /\ Commit(r.w)
    /\ lastReply' = [op |-> op, id |-> id, status |-> r.status, message |-> r.message]
    /\ UNCHANGED <<now, isConnected, accept>>

\* the request either finds the pending one or has a Slack message to post
CanPost(s) ==
    \/ FreeMsgs(World) # {}
    \/ PersistentOf(s) # NONE /\ getHandoffState(World, PersistentOf(s)) # NoHandoff

HumanHandoffRequest(s) ==
    /\ CanPost(s)
    /\ \E slackOk \in BOOLEAN :
          Reply("requestHumanAgent", s,
                routeHandoffRequest(World, s, PersistentOf(s), slackOk))

DeclineHumanHandoff(s) ==
    \E slackOk \in BOOLEAN :
        Reply("decline", s, routeDecline(World, s, PersistentOf(s), slackOk))

SlackOutcomes(s) ==
    IF isActive(reconnection(World, s, PersistentOf(s)), s, PersistentOf(s)).r # NoActive
    THEN {"ok", "thread_not_found", "error"} ELSE {"ok"}

CallbackRequest(s) ==
    \E slackRes \in SlackOutcomes(s), lead \in Leads, escape \in BOOLEAN :
        Reply("callback", s,
              handleChatMessage(World, s, PersistentOf(s), "callback", slackRes,
                                TRUE, FALSE, lead, escape))

ExplicitHumanRequest(s) ==
    \E slackRes \in SlackOutcomes(s) :
        Reply("explicit_human", s,
              handleChatMessage(World, s, PersistentOf(s), "explicit_human", slackRes,
                                FALSE, FALSE, NoLead, FALSE))

ChatMessage(s) ==
    \E slackRes \in SlackOutcomes(s), agreed \in BOOLEAN, shouldOffer \in BOOLEAN,
       lead \in Leads, escape \in BOOLEAN :
        Reply("chat", s,
              handleChatMessage(World, s, PersistentOf(s), "chat", slackRes,
                                agreed, shouldOffer, lead, escape))

----------------------------------------------------------------------------
(* Agent actions on the Slack message (ChatController.handleSlackWebhook) *)

AcceptStep(a, w, rec) ==
    /\ Commit(w)
    /\ accept' = [accept EXCEPT ![a] = rec]
    /\ lastReply' = NoReply
    /\ UNCHANGED <<now, isConnected>>

\* click on the Accept button of message m; resolves the identifiers
AcceptStart(a, m) ==
    /\ accept[a].pc \in {"idle", "done"}
    /\ slackMessages[m].status = "open"
    /\ LET identifier == slackMessages[m].value
           byUser == getUserState(World, identifier).currentSessionId # NONE
           p == IF byUser THEN identifier ELSE getSessionMapping(World, identifier)
           sid == IF byUser THEN getUserState(World, identifier).currentSessionId
                  ELSE identifier
       IN AcceptStep(a, World,
             [pc |-> IF p = NONE THEN "done" ELSE "resolved",
              identifier |-> identifier, messageTs |-> m,
              persistentUserId |-> p, sessionId |-> sid,
              status |-> IF p = NONE THEN "error" ELSE NONE, agentName |-> NONE])

\* is the session already accepted by someone else
AcceptCheck(a) ==
    /\ accept[a].pc = "resolved"
    /\ LET g == getActiveSession(World, accept[a].persistentUserId) IN
       AcceptStep(a, g.w,
             [accept[a] EXCEPT !.pc = IF g.r # NoActive THEN "taken" ELSE "checked",
                               !.agentName = g.r.agentId])

AcceptTaken(a) ==
    /\ accept[a].pc = "taken"
    /\ \E slackOk \in BOOLEAN :
         AcceptStep(a,
             IF slackOk THEN chatUpdate(World, accept[a].messageTs, "closed", NONE)
             ELSE World,
             [accept[a] EXCEPT !.pc = "done",
                               !.status = IF slackOk THEN "already_taken" ELSE "threw"])

AcceptUpdate(a) ==
    /\ accept[a].pc = "checked"
    /\ \E slackOk \in BOOLEAN :
         AcceptStep(a,
             IF slackOk
             THEN chatUpdate(World, accept[a].messageTs, "accepted",
                             accept[a].persistentUserId)
             ELSE World,
             [accept[a] EXCEPT !.pc = IF slackOk THEN "updated" ELSE "done",
                               !.status = IF slackOk THEN NONE ELSE "error"])

AcceptStore(a) ==
    /\ accept[a].pc = "updated"
    /\ LET p == accept[a].persistentUserId
           sessionData == [agentId |-> a, threadTs |-> accept[a].messageTs,
                           connectedAt |-> now,
                           currentSessionId |-> accept[a].sessionId]
       IN AcceptStep(a, getAllActiveSessions(setActiveSession(World, p, sessionData, ActiveTtl)),
                     [accept[a] EXCEPT !.pc = "stored"])

AcceptFinish(a) ==
    /\ accept[a].pc = "stored"
    /\ LET p == accept[a].persistentUserId
           sid == accept[a].sessionId
           w1 == setUserState(World, p, sid)
           w2 == deleteHandoffState(stopWaitingTimeUpdater(w1, p), p)
           w3 == clearUserInactivityTimeout(clearHandoffTimeout(w2, p), p)
           w4 == startSessionDurationUpdater(w3, p, accept[a].messageTs)
       IN AcceptStep(a, markHumanHandoffAcceptedBegin(w4, sid, p),
                     [accept[a] EXCEPT !.pc = "marking"])

AcceptMark(a) ==
    /\ accept[a].pc = "marking"
    /\ LET p == accept[a].persistentUserId
           sid == accept[a].sessionId
           w5 == setSessionStateEnd(World, sid, NORMAL_CHAT, p)
           w6 == setUserInactivityTimeout(w5, p)
       IN AcceptStep(a, Emit(w6, sid, "agent_connected"),
                     [accept[a] EXCEPT !.pc = "done", !.status = "accepted",
                                       !.agentName = a])

\* click on the End Chat button of message m
EndChat(a, m) ==
    /\ slackMessages[m].status = "accepted"
    /\ \E slackOk \in BOOLEAN :
         Reply("endChat", a,
               handleEndChatButton(World, slackMessages[m].value, m, slackOk))

----------------------------------------------------------------------------
(* Timer callbacks *)

TimerStep(w) ==
    /\ Commit(w)
    /\ lastReply' = NoReply
    /\ UNCHANGED <<now, isConnected, accept>>

HandoffTimeoutFires(p) ==
    /\ handoffTimeouts[p] # NoTimeout
    /\ now >= handoffTimeouts[p].due
    /\ \E slackOk \in BOOLEAN : TimerStep(handoffTimeoutCallback(World, p, slackOk))

InactivityTimeoutFires(p) ==
    /\ userInactivityTimeouts[p] # 0
    /\ now >= userInactivityTimeouts[p]
    /\ \E slackOk \in BOOLEAN : TimerStep(inactivityTimeoutCallback(World, p, slackOk))

WaitingTimeTick(k) ==
    /\ updateIntervals[k].live
    /\ \E slackOk \in BOOLEAN : TimerStep(waitingTimeUpdate(World, k, slackOk))

SessionDurationTick(p) ==
    /\ sessionDurationIntervals[p].live
    /\ \E slackOk \in BOOLEAN : TimerStep(sessionDurationUpdate(World, p, slackOk))

----------------------------------------------------------------------------
(* Direct calls of the SessionService API *)

\* a value that is not one of the five states
UnknownState == "unknown_state"

\* setSessionState logs "Invalid session state" and returns on an unknown value
SetSessionStateCall(s, state) ==
    /\ Commit(setSessionState(World, s, state, PersistentOf(s)))
    /\ lastReply' = [op |-> "setSessionState", id |-> s,
                     status |-> IF state \in SessionState THEN "ok" ELSE "invalid_state",
                     message |-> state]
    /\ UNCHANGED <<now, isConnected, accept>>

MarkHumanHandoffAcceptedCall(s) ==
    /\ Commit(markHumanHandoffAccepted(World, s, PersistentOf(s)))
    /\ lastReply' = [op |-> "markHumanHandoffAccepted", id |-> s,
                     status |-> "ok", message |-> NONE]
    /\ UNCHANGED <<now, isConnected, accept>>

CanRequestHandoffAgainCall(s) ==
    LET c == canRequestHandoffAgain(World, s, PersistentOf(s)) IN
    /\ Commit(c.w)
    /\ lastReply' = [op |-> "canRequestHandoffAgain", id |-> s,
                     status |-> IF c.r THEN "true" ELSE "false", message |-> NONE]
    /\ UNCHANGED <<now, isConnected, accept>>

\* time passing over more than the cooldown
Later == Advance(MaxClock)

----------------------------------------------------------------------------
(* Specifications *)

\* the browser session of the visitor p1
MainSessions == {"s1"}

\* Spec: one visitor asking for an agent, two agents on the Slack channel, the
\* handoff and inactivity timers
Next ==
    \/ Tick
    \/ \E s \in MainSessions : HumanHandoffRequest(s)
    \/ \E s \in MainSessions : DeclineHumanHandoff(s)
    \/ \E a \in Agents, m \in Msgs : AcceptStart(a, m)
    \/ \E a \in Agents : AcceptCheck(a)
    \/ \E a \in Agents : AcceptTaken(a)
    \/ \E a \in Agents : AcceptUpdate(a)
    \/ \E a \in Agents : AcceptStore(a)
    \/ \E a \in Agents : AcceptFinish(a)
    \/ \E a \in Agents : AcceptMark(a)
    \/ \E a \in Agents, m \in Msgs : EndChat(a, m)
    \/ \E p \in P : HandoffTimeoutFires(p)
    \/ \E p \in P : InactivityTimeoutFires(p)

Spec == Init /\ [][Next]_vars

\* SpecAccept: the requests of the visitor and the accept clicks of two agents
NextAccept ==
    \/ Tick
    \/ \E s \in MainSessions : HumanHandoffRequest(s)
    \/ \E a \in Agents, m \in Msgs : AcceptStart(a, m)
    \/ \E a \in Agents : AcceptCheck(a)
    \/ \E a \in Agents : AcceptTaken(a)
    \/ \E a \in Agents : AcceptUpdate(a)
    \/ \E a \in Agents : AcceptStore(a)
    \/ \E a \in Agents : AcceptFinish(a)
    \/ \E a \in Agents : AcceptMark(a)

SpecAccept == Init /\ [][NextAccept]_vars

\* the stored state once an agent has accepted the first request of s1 and has
\* ended the chat, all at time 1
AfterHandoff ==
    /\ now = 1
    /\ isConnected = TRUE
    /\ userState = [p \in P |-> [currentSessionId |-> "s1", agentConnected |-> TRUE]]
    /\ sessionMapping = [s \in S |-> IF s = "s1" THEN "p1" ELSE NONE]
    /\ handoffState = [p \in P |-> NoHandoff]
    /\ timerStart = [p \in P |-> NoTimerStart]
    /\ activeSessions = [p \in P |-> NoActive]
    /\ activeTtl = [p \in P |-> 0]
    /\ sessionStateKey =
         [p \in P |-> [rec |-> [state |-> NORMAL_CHAT, lastActivity |-> 1,
                                handoffOffered |-> FALSE, lastHandoffTime |-> 1],
                       exp |-> 1 + SessionTtl]]
    /\ sessions = [s \in S |-> IF s = "s1"
                               THEN [state |-> NORMAL_CHAT, lastActivity |-> 1,
                                     handoffOffered |-> FALSE, lastHandoffTime |-> 1]
                               ELSE NoSession]
    /\ handoffTimeouts = [p \in P |-> NoTimeout]
    /\ userInactivityTimeouts = [p \in P |-> 0]
    /\ updateIntervals = [k \in IntervalKeys |-> NoInterval]
    /\ sessionDurationIntervals = [p \in P |-> NoInterval]
    /\ waitingSessions =
         [s \in S |-> IF s = "s1"
                      THEN [messageTs |-> 1, requestTime |-> 1, persistentUserId |-> "p1"]
                      ELSE NoWaiting]
    /\ scheduled = {}
    /\ inactivityRun = [p \in P |-> NoActive]
    /\ slackMessages = [m \in Msgs |-> IF m = 1 THEN [status |-> "closed", value |-> NONE]
                                       ELSE NoMessage]
    /\ leads = {}
    /\ retry = IdleRetry
    /\ conversation = [id \in ConversationIds |-> NoConversation]
    /\ interactions = <<>>
    /\ held = [s \in S |-> NoCall]

\* SpecChat: the visitor's messages over more than one cooldown, from a fresh
\* start or after a first handoff
InitChat ==
    \/ Init
    \/ /\ AfterHandoff
       /\ emitted = {}
       /\ lastReply = NoReply
       /\ accept = [a \in Agents |-> IdleAccept]

NextChat ==
    \/ Later
    \/ \E s \in MainSessions : DeclineHumanHandoff(s)
    \/ \E s \in MainSessions : CallbackRequest(s)
    \/ \E s \in MainSessions : ExplicitHumanRequest(s)
    \/ \E s \in MainSessions : ChatMessage(s)

SpecChat == InitChat /\ [][NextChat]_vars

\* SpecSession: the SessionService API called directly
NextSession ==
    \/ Later
    \/ \E s \in MainSessions, state \in SessionState \cup {UnknownState} :
          SetSessionStateCall(s, state)
    \/ \E s \in MainSessions : MarkHumanHandoffAcceptedCall(s)
    \/ \E s \in MainSessions : CanRequestHandoffAgainCall(s)

SpecSession == Init /\ [][NextSession]_vars

\* the whole system: every session, every action
NextSystem ==
    \/ Tick
    \/ \E s \in S : HumanHandoffRequest(s)
    \/ \E s \in S : DeclineHumanHandoff(s)
    \/ \E s \in S : CallbackRequest(s)
    \/ \E s \in S : ExplicitHumanRequest(s)
    \/ \E s \in S : ChatMessage(s)
    \/ \E a \in Agents, m \in Msgs : AcceptStart(a, m)
    \/ \E a \in Agents : AcceptCheck(a)
    \/ \E a \in Agents : AcceptTaken(a)
    \/ \E a \in Agents : AcceptUpdate(a)
    \/ \E a \in Agents : AcceptStore(a)
    \/ \E a \in Agents : AcceptFinish(a)
    \/ \E a \in Agents : AcceptMark(a)
    \/ \E a \in Agents, m \in Msgs : EndChat(a, m)
    \/ \E p \in P : HandoffTimeoutFires(p)
    \/ \E p \in P : InactivityTimeoutFires(p)
    \/ \E k \in IntervalKeys : WaitingTimeTick(k)
    \/ \E p \in P : SessionDurationTick(p)

SpecSystem == Init /\ [][NextSystem]_vars

\* SpecTimeout: requests that no agent claims, with the clock running on until
\* every handoff timeout armed by them has come; timers fire and time passes
RequestInTime(s) == now <= MaxTime /\ HumanHandoffRequest(s)

DeclineInTime(s) == now <= MaxTime /\ DeclineHumanHandoff(s)

TickLate == Advance(MaxTime + HandoffTimeoutDelay)

NextTimeout ==
    \/ TickLate
    \/ \E s \in MainSessions : RequestInTime(s)
    \/ \E s \in MainSessions : DeclineInTime(s)
    \/ \E p \in P : HandoffTimeoutFires(p)

SpecTimeout ==
    /\ Init /\ [][NextTimeout]_vars
    /\ WF_vars(TickLate)
    /\ WF_vars(\E p \in P : HandoffTimeoutFires(p))

\* SpecConnected: one visitor and one agent, from the request through the
\* accept to the end of the conversation, with the visitor's messages
TheAgent == "a1"

\* a chat message to which the responder, if it is asked, gives a plain answer
PlainMessage(s) ==
    \E slackRes \in SlackOutcomes(s) :
        Reply("chat", s,
              handleChatMessage(World, s, PersistentOf(s), "chat", slackRes,
                                FALSE, FALSE, NoLead, FALSE))

NextConnected ==
    \/ Tick
    \/ \E s \in MainSessions : HumanHandoffRequest(s)
    \/ \E s \in MainSessions : DeclineHumanHandoff(s)
    \/ \E s \in MainSessions : PlainMessage(s)
    \/ \E m \in Msgs : AcceptStart(TheAgent, m)
    \/ AcceptCheck(TheAgent)
    \/ AcceptTaken(TheAgent)
    \/ AcceptUpdate(TheAgent)
    \/ AcceptStore(TheAgent)
    \/ AcceptFinish(TheAgent)
    \/ AcceptMark(TheAgent)
    \/ \E m \in Msgs : EndChat(TheAgent, m)
    \/ \E p \in P : InactivityTimeoutFires(p)

SpecConnected == Init /\ [][NextConnected]_vars

\* SpecTimers: the timers of a connected visitor, the inactivity callback
\* being interleaved with the other handlers at its call of slack.chat.update
InactivityTimeoutBegins(p) ==
    /\ inactivityRun[p] = NoActive
    /\ \E t \in TimersOf(scheduled, "inactivity", p) :
          /\ now >= t.at
          /\ TimerStep(inactivityTimeoutBegin(World, p, t.at))

InactivityTimeoutEnds(p) ==
    /\ inactivityRun[p] # NoActive
    /\ \E slackOk \in BOOLEAN : TimerStep(inactivityTimeoutEnd(World, p, slackOk))

\* the answer of Slack arrives before the clock moves on
TickIdle == TickLate /\ \A p \in P : inactivityRun[p] = NoActive

NextTimers ==
    \/ TickIdle
    \/ \E s \in MainSessions : RequestInTime(s)
    \/ \E s \in MainSessions : PlainMessage(s)
    \/ \E m \in Msgs : AcceptStart(TheAgent, m)
    \/ AcceptCheck(TheAgent)
    \/ AcceptTaken(TheAgent)
    \/ AcceptUpdate(TheAgent)
    \/ AcceptStore(TheAgent)
    \/ AcceptFinish(TheAgent)
    \/ AcceptMark(TheAgent)
    \/ \E p \in P : InactivityTimeoutBegins(p)
    \/ \E p \in P : InactivityTimeoutEnds(p)

SpecTimers == Init /\ [][NextTimers]_vars

\* SpecRebind: one visitor under two session ids, its transport going away
\* and coming back, one request for an agent and one agent
Rebound == {"s1", "s2"}

\* the disconnect event of the socket that joined session s: the two promise
\* chains of the handler, which touch different records
SocketDisconnect(s) ==
    \E slackOk \in BOOLEAN :
        Reply("disconnect", s,
              Bind(isSessionActive(World, s),
                   LAMBDA act :
                     Bind(IF act.r # NoActive THEN disconnectSession(act.w, s) ELSE act.w,
                          LAMBDA w1 :
                            Result(IF isSessionWaiting(w1, s)
                                   THEN handleWaitingSessionDisconnect(w1, s, slackOk)
                                   ELSE w1, NONE, NONE))))

\* a message typed by the agent in the thread of Slack message m
AgentMessage(a, m) ==
    \E slackRes \in {"ok", "thread_not_found", "error"} :
        Reply("agentMessage", a, handleAgentMessage(World, m, slackRes))

NextRebind ==
    \/ Tick /\ \A p \in P : inactivityRun[p] = NoActive
    \/ \E s \in MainSessions : FreeMsgs(World) = Msgs /\ HumanHandoffRequest(s)
    \/ \E s \in Rebound : PlainMessage(s)
    \/ \E s \in Rebound : SocketDisconnect(s)
    \/ \E m \in Msgs : AcceptStart(TheAgent, m)
    \/ AcceptCheck(TheAgent)
    \/ AcceptUpdate(TheAgent)
    \/ AcceptStore(TheAgent)
    \/ AcceptFinish(TheAgent)
    \/ AcceptMark(TheAgent)
    \/ \E m \in Msgs : AgentMessage(TheAgent, m)
    \/ \E m \in Msgs : EndChat(TheAgent, m)
    \/ \E p \in P : InactivityTimeoutBegins(p)
    \/ \E p \in P : InactivityTimeoutEnds(p)

SpecRebind == Init /\ [][NextRebind]_vars

\* SpecStandalone: a visitor with a durable identity and one without, their
\* requests, the agent's clicks on Accept and the timers, with the clock
\* running on until every handoff timeout armed by a request has come; the
\* agent keeps clicking, timers fire and time passes
Standalone == {"s3"}

AgentAccepts ==
    \/ \E m \in Msgs : AcceptStart(TheAgent, m)
    \/ AcceptCheck(TheAgent)
    \/ AcceptTaken(TheAgent)
    \/ AcceptUpdate(TheAgent)
    \/ AcceptStore(TheAgent)
    \/ AcceptFinish(TheAgent)
    \/ AcceptMark(TheAgent)

NextStandalone ==
    \/ TickLate
    \/ \E s \in MainSessions \cup Standalone : RequestInTime(s)
    \/ AgentAccepts
    \/ \E p \in P : HandoffTimeoutFires(p)
    \/ \E k \in IntervalKeys : WaitingTimeTick(k)

SpecStandalone ==
    /\ Init /\ [][NextStandalone]_vars
    /\ WF_vars(TickLate)
    /\ WF_vars(AgentAccepts)
    /\ WF_vars(\E p \in P : HandoffTimeoutFires(p))

\* SpecEnding: one visitor and one agent, with every way a request or a
\* connection ends: End Chat, the handoff timeout, the inactivity timeout and
\* the cleanup of a connection whose thread is gone
NextEnding ==
    \/ TickLate
    \/ \E s \in MainSessions : RequestInTime(s)
    \/ \E s \in MainSessions : PlainMessage(s)
    \/ AgentAccepts
    \/ \E m \in Msgs : EndChat(TheAgent, m)
    \/ \E p \in P : HandoffTimeoutFires(p)
    \/ \E p \in P : InactivityTimeoutFires(p)

SpecEnding == Init /\ [][NextEnding]_vars

\* SpecRetry: calls of retryWithBackoff with the default budget, one after the
\* other, the API answering each attempt in any way; attempts and sleeps end
RetryStep(r) ==
    /\ retry' = r
    /\ CommitWorld(World)
    /\ UNCHANGED <<now, isConnected, lastReply, accept, interactions, held>>

RetryStart ==
    /\ retry.pc \in {"idle", "returned", "threw"}
    /\ RetryStep([IdleRetry EXCEPT !.pc = "calling", !.retries = maxRetries])

RetryAttempt ==
    /\ retry.pc = "calling"
    /\ \E outcome \in Outcomes : RetryStep(retryAttempt(retry, outcome))

RetrySleepEnds ==
    /\ retry.pc = "sleeping"
    /\ RetryStep(retryAgain(retry))

NextRetry ==
    \/ RetryStart
    \/ RetryAttempt
    \/ RetrySleepEnds

SpecRetry ==
    /\ Init /\ [][NextRetry]_vars
    /\ WF_vars(RetryAttempt)
    /\ WF_vars(RetrySleepEnds)

\* SpecMemory: exchanges of a visitor with a durable identity and of one
\* without stored by addMessage, one call after the other, over more than
\* the life of a conversation key; the n-th exchange has the content n
MaxTurns == 6

AddMessage(s) ==
    /\ Len(interactions) < MaxTurns
    /\ LET n == Len(interactions) + 1
           p == PersistentOf(s)
       IN /\ CommitWorld(addMessage(World, s, p, n, n))
          /\ interactions' = Append(interactions,
                                    [id |-> IF p # NONE THEN p ELSE s, n |-> n])
    /\ lastReply' = NoReply
    /\ UNCHANGED <<now, isConnected, accept, retry, held>>

NextMemory ==
    \/ Later
    \/ \E s \in MainSessions \cup Standalone : AddMessage(s)

SpecMemory == Init /\ [][NextMemory]_vars

\* SpecRace: the SessionService API called by two handlers at once: a call of
\* the visitor's side is taken at the two moments it touches the store, its
\* GET and its SET, and the claim's markHumanHandoffAccepted may come between
SessionCalls == {"updateSessionActivity", "markHandoffOffered"}

SessionCallBegins(s, op) ==
    /\ held[s] = NoCall
    /\ held' = [held EXCEPT ![s] =
                  [op |-> op, redisSession |-> getSessionFromRedis(World, PersistentOf(s))]]
    /\ CommitWorld(World)
    /\ lastReply' = NoReply
    /\ UNCHANGED <<now, isConnected, accept, retry, interactions>>

SessionCallEnds(s) ==
    /\ held[s] # NoCall
    /\ held' = [held EXCEPT ![s] = NoCall]
    /\ CommitWorld(sessionCallEnd(World, s, PersistentOf(s), held[s]))
    /\ lastReply' = [op |-> held[s].op, id |-> s, status |-> NONE, message |-> NONE]
    /\ UNCHANGED <<now, isConnected, accept, retry, interactions>>

\* the answer of the store arrives before the clock moves on
LaterIdle == Later /\ \A s \in S : held[s] = NoCall

NextRace ==
    \/ LaterIdle
    \/ \E s \in MainSessions, op \in SessionCalls : SessionCallBegins(s, op)
    \/ \E s \in MainSessions : SessionCallEnds(s)
    \/ \E s \in MainSessions : MarkHumanHandoffAcceptedCall(s)

SpecRace == Init /\ [][NextRace]_vars

\* SpecOffered: one visitor under two session ids whose messages may bring a
\* suggestion of a handoff, its request, the claim, End Chat and the handoff
\* timeout, over more than one cooldown and more than the life of its record
OfferingMessage(s) ==
    \E slackRes \in SlackOutcomes(s), shouldOffer \in BOOLEAN :
        Reply("chat", s,
              handleChatMessage(World, s, PersistentOf(s), "chat", slackRes,
                                FALSE, shouldOffer, NoLead, FALSE))

NextOffered ==
    \/ Later
    \/ \E s \in MainSessions : OfferingMessage(s)
    \/ \E s \in MainSessions : FreeMsgs(World) = Msgs /\ RequestInTime(s)
    \/ now <= MaxTime /\ AgentAccepts
    \/ \E m \in Msgs : now <= MaxTime /\ EndChat(TheAgent, m)
    \/ \E p \in P : HandoffTimeoutFires(p)

SpecOffered == Init /\ [][NextOffered]_vars

\* SpecAnonymous: the visitor p1 and two visitors without a durable identity,
\* their requests for an agent and their declines, the handoff timeout and the
\* runs of the waiting-time interval
Anonymous == {"s3", "s4"}

\* the visitor behind a session id: persistentUserId || sessionId
VisitorOf(s) == IF PersistentOf(s) # NONE THEN PersistentOf(s) ELSE s

NextAnonymous ==
    \/ Tick
    \/ \E s \in MainSessions \cup Anonymous : HumanHandoffRequest(s)
    \/ \E s \in MainSessions \cup Anonymous : DeclineHumanHandoff(s)
    \/ \E p \in P : HandoffTimeoutFires(p)
    \/ \E k \in IntervalKeys : WaitingTimeTick(k)

SpecAnonymous == Init /\ [][NextAnonymous]_vars

\* SpecLongChat: one visitor under two session ids and one agent, over more
\* than the life of a connection record: the request, the claim, the visitor's
\* messages from either session id, End Chat and the two timeouts; a handler
\* is over long before the clock moves on
LaterQuiet == Later /\ \A a \in Agents : accept[a].pc \in {"idle", "done"}

\* a message of a visitor who is connected to an agent
ConnectedMessage(s) ==
    /\ isActive(reconnection(World, s, PersistentOf(s)), s, PersistentOf(s)).r # NoActive
    /\ PlainMessage(s)

NextLongChat ==
    \/ LaterQuiet
    \/ \E s \in MainSessions : RequestInTime(s)
    \/ \E s \in MainSessions : ConnectedMessage(s)
    \/ now <= MaxTime /\ AgentAccepts
    \/ \E m \in Msgs : now <= MaxTime /\ EndChat(TheAgent, m)
    \/ \E p \in P : HandoffTimeoutFires(p)
    \/ \E p \in P : InactivityTimeoutFires(p)

SpecLongChat == Init /\ [][NextLongChat]_vars

----------------------------------------------------------------------------
(* What the claims speak about *)

\* the conversation record of the visitor behind session s, as getSession finds it
StoredRecord(s) ==
    IF PersistentOf(s) # NONE /\ isConnected
       /\ sessionStateKey[PersistentOf(s)].rec # NoSession
    THEN sessionStateKey[PersistentOf(s)].rec
    ELSE sessions[s]

StoredState(s) == StoredRecord(s).state

\* an active agent connection of visitor p is in the store
ActiveLive(p) ==
    isConnected /\ p \in P /\ activeTtl[p] > now /\ activeSessions[p] # NoActive

\* the connection, the conversation record and the four timers
Records == <<activeSessions, activeTtl, sessionStateKey, sessions, handoffTimeouts,
             userInactivityTimeouts, updateIntervals, sessionDurationIntervals>>

\* the Slack messages posted so far
Posted == {m \in Msgs : slackMessages[m].status # "none"}

\* the request of s is published, unclaimed, and its timeout has not come
Waiting(s) ==
    /\ waitingSessions[s] # NoWaiting
    /\ waitingSessions[s].messageTs \in Msgs
    /\ slackMessages[waitingSessions[s].messageTs].status = "open"
    /\ PersistentOf(s) \in P
    /\ handoffTimeouts[PersistentOf(s)] # NoTimeout
    /\ now < handoffTimeouts[PersistentOf(s)].due
    /\ ~ActiveLive(PersistentOf(s))

\* the edges of the transition graph
Edge(x, y) ==
    \/ y = HUMAN_CONNECTED
    \/ <<x, y>> \in {<<SEEKING_HANDOFF, LEAD_CAPTURE>>,
                     <<SEEKING_HANDOFF, CALLBACK_REQUEST>>,
                     <<LEAD_CAPTURE, CALLBACK_REQUEST>>,
                     <<CALLBACK_REQUEST, NORMAL_CHAT>>,
                     <<NORMAL_CHAT, SEEKING_HANDOFF>>,
                     <<HUMAN_CONNECTED, NORMAL_CHAT>>}

----------------------------------------------------------------------------
(* Claims *)

\* C1: of the agents that click Accept on the same request, at most one gets
\* 'accepted': two invocations that returned 'accepted' are for different
\* Slack messages.
C1_ExactlyOneAccepted ==
    \A a, b \in Agents :
        (a # b /\ accept[a].status = "accepted" /\ accept[b].status = "accepted")
            => accept[a].messageTs # accept[b].messageTs

\* the two steps of an accept that finds an active connection: the check
\* goes to the already-taken branch naming the holder, and the branch returns
\* one of the results, both steps leaving the records as they are
AlreadyTakenSteps(results) ==
    \A a \in Agents :
        /\ (accept[a].pc = "resolved" /\ accept'[a].pc # "resolved"
              /\ ActiveLive(accept[a].persistentUserId))
            => /\ accept'[a].pc = "taken"
               /\ accept'[a].agentName = activeSessions[accept[a].persistentUserId].agentId
               /\ UNCHANGED Records
        /\ (accept[a].pc = "taken" /\ accept'[a].pc # "taken")
            => /\ accept'[a].pc = "done"
               /\ accept'[a].status \in results
               /\ accept'[a].agentName = accept[a].agentName
               /\ UNCHANGED Records

Pending(p) ==
    \/ getHandoffState(World, p) # NoHandoff
    \/ handoffTimeouts[p] # NoTimeout

\* C3: an accept for a visitor that has no pending request fails at once with
\* the 'Session not found' error, and no accept writes a connection record
\* for a visitor that has no pending request.
C3_NoPendingNoConnection ==
    [][\A a \in Agents :
          /\ (accept[a].pc \in {"idle", "done"} /\ accept'[a] # accept[a]
                /\ accept'[a].persistentUserId \in P
                /\ ~Pending(accept'[a].persistentUserId))
              => (accept'[a].pc = "done" /\ accept'[a].status = "error")
          /\ (accept[a].pc = "updated" /\ accept'[a].pc = "stored")
              => Pending(accept[a].persistentUserId)]_vars

\* C4: every change of the stored conversation state of a visitor follows an
\* edge of the transition graph.
C4_TransitionsFollowEdges ==
    [][\A s \in MainSessions :
          (StoredState(s) # NONE /\ StoredState(s)' # NONE
             /\ StoredState(s)' # StoredState(s))
            => Edge(StoredState(s), StoredState(s)')]_vars

C6_NoConnectionDuringCooldown ==
    [][\A a \in Agents :
          (accept[a].pc = "updated" /\ accept'[a].pc = "stored"
             /\ \A b \in Agents \ {a} :
                   /\ accept[b].pc \in {"idle", "done"}
                   /\ accept[b].messageTs # accept[a].messageTs)
            => canRequest(StoredRecord(accept[a].sessionId).lastHandoffTime, now)]_vars

C8_CooldownElapsedSeeks ==
    [][\A s \in MainSessions :
          (StoredState(s) = NORMAL_CHAT
             /\ StoredRecord(s).lastHandoffTime # 0 /\ ChatMessage(s))
            => StoredState(s)' =
                 (IF canRequest(StoredRecord(s).lastHandoffTime, now)
                  THEN SEEKING_HANDOFF ELSE NORMAL_CHAT)]_vars

\* C9: a callback request made after a handoff at lastHandoffTime, whatever
\* the cooldown, moves the visitor to CALLBACK_REQUEST.
C9_CallbackExempt ==
    [][\A s \in MainSessions :
          (StoredRecord(s).lastHandoffTime # 0
             /\ now > StoredRecord(s).lastHandoffTime
             /\ ~ActiveLive(PersistentOf(s)) /\ CallbackRequest(s))
            => StoredState(s)' = CALLBACK_REQUEST]_vars

\* C10: a handoff request of a visitor whose request is waiting, when it
\* succeeds, publishes no second Slack message, arms no second timeout and
\* returns the still-pending result.
C10_IdempotentRequest ==
    [][\A s \in MainSessions :
          (Waiting(s) /\ HumanHandoffRequest(s)
             /\ lastReply'.status = "human_requested")
            => /\ Posted' = Posted
               /\ handoffTimeouts' = handoffTimeouts
               /\ lastReply'.message = "still_active"]_vars

C12_TimeoutNoOpWhenClaimed ==
    [][\A p \in P :
          (HandoffTimeoutFires(p) /\ ActiveLive(p))
            => /\ sessions' = sessions
               /\ sessionStateKey' = sessionStateKey
               /\ \A s \in S : <<s, "handoff_timeout">> \notin emitted']_vars

\* C13: the inactivity timeout of a connected visitor removes the active
\* connection and leaves the conversation state NORMAL_CHAT, whatever the
\* outcome of the update of the Slack message.
C13_InactivityReclaims ==
    [][\A p \in P :
          (InactivityTimeoutFires(p) /\ ActiveLive(p))
            => /\ ~ActiveLive(p)'
               /\ \A s \in MainSessions :
                     PersistentOf(s) = p => StoredState(s)' = NORMAL_CHAT]_vars

\* C14: a message of a connected visitor whose inactivity timer is running,
\* after which the visitor is still connected, restarts the inactivity timer: the timer is due one full
\* inactivity duration after the message.
C14_MessageRestartsInactivity ==
    [][\A s \in MainSessions :
          (PlainMessage(s) /\ userInactivityTimeouts[PersistentOf(s)] # 0
             /\ ActiveLive(PersistentOf(s)) /\ ActiveLive(PersistentOf(s))')
            => userInactivityTimeouts'[PersistentOf(s)] = now + InactivityDelay]_vars

\* C15: in every reachable state a visitor has at most one live timer of each
\* of the four kinds (handoff timeout, inactivity timeout, waiting ticker,
\* duration ticker)
C15_OneTimerPerKind ==
    \A kind \in {"handoff", "inactivity", "waiting", "duration"} :
       \A key \in IntervalKeys : Cardinality(TimersOf(scheduled, kind, key)) <= 1

\* C16: a visitor is in exactly one of IDLE, WAITING, CONNECTED: a handoff
\* request of a visitor that has an active agent connection, no claim being
\* in progress, publishes no Slack message and leaves no pending request
C16_NoRequestWhileConnected ==
    [][\A s \in MainSessions :
          (/\ HumanHandoffRequest(s)
           /\ ActiveLive(PersistentOf(s))
           /\ \A a \in Agents : accept[a].pc \in {"idle", "done"}
           /\ handoffState[PersistentOf(s)] = NoHandoff)
            => /\ Posted' = Posted
               /\ handoffState'[PersistentOf(s)] = NoHandoff]_vars

\* C17: when an accept ends with status 'accepted', the visitor has no
\* handoff-timeout timer and no waiting ticker, its inactivity timer and its
\* duration ticker are running, and agent_connected is emitted to its session
C17_TimersAfterClaim ==
    [][\A a \in Agents :
          (accept[a].pc = "marking" /\ accept'[a].pc = "done"
             /\ accept'[a].status = "accepted")
            => LET p == accept[a].persistentUserId IN
               /\ TimersOf(scheduled', "handoff", p) = {}
               /\ TimersOf(scheduled', "waiting", p) = {}
               /\ TimersOf(scheduled', "inactivity", p) # {}
               /\ TimersOf(scheduled', "duration", p) # {}
               /\ <<accept[a].sessionId, "agent_connected">> \in emitted']_vars

\* C18: for a visitor with a durable identity and a reachable store,
\* getSessionState reports HUMAN_CONNECTED exactly when an active agent
\* connection of the visitor exists, no claim being in progress
C18_ConnectedIffActive ==
    \A s \in MainSessions :
       (/\ PersistentOf(s) # NONE
        /\ isConnected
        /\ \A a \in Agents : accept[a].pc \in {"idle", "done"})
         => (getSessionState(World, s, PersistentOf(s)).r = HUMAN_CONNECTED
               <=> ActiveLive(PersistentOf(s)))

\* C19: when handleEndChatButton returns 'ended' for a visitor that has an
\* active connection, no claim being in progress, the connection is gone, the visitor's conversation
\* state is NORMAL_CHAT, and agent_disconnected is emitted to its session
C19_EndChatLeavesNormalChat ==
    [][\A s \in MainSessions :
          (/\ ActiveLive(PersistentOf(s))
           /\ \A a \in Agents : accept[a].pc \in {"idle", "done"}
           /\ \E a \in Agents, m \in Msgs :
                 EndChat(a, m) /\ slackMessages[m].value = PersistentOf(s)
           /\ lastReply'.status = "ended")
            => /\ ~ActiveLive(PersistentOf(s))'
               /\ StoredState(s)' = NORMAL_CHAT
               /\ <<activeSessions[PersistentOf(s)].currentSessionId,
                     "agent_disconnected">> \in emitted']_vars

\* the automated responder produced the answer of the last request
ResponderAnswered(r) ==
    \/ r.status = "bot_response" /\ r.message = "text"
    \/ r.status = "human_handoff_suggestion"

\* C20 as stated: every message of a visitor that has an active connection
\* is forwarded to the agent or answered with the fixed connected notice
C20_ForwardedOrNotice ==
    [][\A s \in MainSessions :
          (PlainMessage(s) /\ ActiveLive(PersistentOf(s)))
            => \/ lastReply'.status = "sent_to_human"
               \/ lastReply'.status = "bot_response"
                    /\ lastReply'.message = "connected_notice"]_vars

\* C20: a message of a visitor that has an active connection is forwarded to
\* the agent or fails with an error while the connection stays; the
\* automated responder answers it only when the agent's thread is gone and
\* the connection was removed first
C20_ResponderOnlyAfterCleanup ==
    [][\A s \in MainSessions :
          (PlainMessage(s) /\ ActiveLive(PersistentOf(s)))
            => /\ ResponderAnswered(lastReply') => ~ActiveLive(PersistentOf(s))'
               /\ ActiveLive(PersistentOf(s))'
                    => lastReply'.status \in {"sent_to_human", "error"}
               /\ lastReply'.status = "sent_to_human" => ActiveLive(PersistentOf(s))']_vars

\* the responder answered a message whose forwarding found the thread gone
C20_Witness ==
    /\ lastReply.op = "chat"
    /\ ResponderAnswered(lastReply)
    /\ accept[TheAgent].pc = "done"
    /\ accept[TheAgent].status = "accepted"
    /\ slackMessages[accept[TheAgent].messageTs].status = "accepted"
    /\ isConnected
    /\ activeSessions["p1"] = NoActive
    /\ userInactivityTimeouts["p1"] = 0

C22_NoSecondSuggestion ==
    [][\A s \in MainSessions :
          (lastReply'.id = s /\ lastReply'.op \in {"chat", "callback", "explicit_human"}
             /\ StoredRecord(s).handoffOffered)
            => lastReply'.status # "human_handoff_suggestion"]_vars

\* C22: once handoffOffered is true, the handoff analysis of the responder
\* suggests no handoff again; only a message matching an explicit human
\* request pattern is still answered with human_handoff_suggestion
C22_OnlyExplicitSuggestsAgain ==
    [][\A s \in MainSessions :
          (lastReply'.id = s /\ lastReply'.op \in {"chat", "callback", "explicit_human"}
             /\ StoredRecord(s).handoffOffered
             /\ lastReply'.status = "human_handoff_suggestion")
            => lastReply'.op = "explicit_human"]_vars

\* an explicit human request answered with a suggestion after an offer
C22_Witness ==
    /\ lastReply.op = "explicit_human"
    /\ lastReply.status = "human_handoff_suggestion"
    /\ StoredRecord("s1").handoffOffered

\* C23: a request answered by the responder while the visitor is in
\* CALLBACK_REQUEST, with a lead marker of at least four fields in the answer
\* and a save that succeeds, stores the first four fields in order and leaves
\* the visitor in NORMAL_CHAT
C23_LeadCapturedToNormalChat ==
    [][\A s \in MainSessions, lead \in Leads, kind \in {"chat", "callback"},
         agreed \in BOOLEAN, shouldOffer \in BOOLEAN, escape \in BOOLEAN :
         (/\ getSessionState(World, s, PersistentOf(s)).r = CALLBACK_REQUEST
          /\ leadParts(lead.text).found
          /\ Len(leadParts(lead.text).parts) >= 4
          /\ lead.dbOk
          /\ Reply(kind, s, handleChatMessage(World, s, PersistentOf(s), kind, "ok",
                                             agreed, shouldOffer, lead, escape)))
           => /\ StoredState(s)' = NORMAL_CHAT
              /\ [firstName |-> <<"Ann">>, lastName |-> <<"Lee">>,
                  email |-> <<"ann@x">>, phone |-> <<"0400">>,
                  sessionId |-> s] \in leads']_vars

\* C24: a responder text whose lead marker carries fewer than four fields on
\* its line has the effect of the same text without the marker: the same
\* records and the same reply, no row added to the leads, a visitor in
\* CALLBACK_REQUEST left there unless the text also carries the escape marker,
\* and a reply that is not an error
C24_MalformedMarkerIsNoLead ==
    \A s \in MainSessions, lead \in Leads, kind \in {"chat", "callback"},
       agreed \in BOOLEAN, shouldOffer \in BOOLEAN, escape \in BOOLEAN :
       (/\ \E i \in 1..Len(lead.text) : lead.text[i] = "LEAD_CAPTURED:"
        /\ ~leadParts(lead.text).found \/ Len(leadParts(lead.text).parts) < 4)
         => LET r == handleChatMessage(World, s, PersistentOf(s), kind, "ok",
                                       agreed, shouldOffer, lead, escape)
            IN /\ r = handleChatMessage(World, s, PersistentOf(s), kind, "ok",
                                        agreed, shouldOffer, NoLead, escape)
               /\ r.w.leads = leads
               /\ r.status \in {"bot_response", "human_handoff_suggestion",
                                "sent_to_human"}
               /\ (getSessionState(World, s, PersistentOf(s)).r = CALLBACK_REQUEST
                      /\ kind = "chat" /\ ~escape)
                   => getSessionState(r.w, s, PersistentOf(s)).r = CALLBACK_REQUEST

\* the responder has answered a visitor in CALLBACK_REQUEST, no lead is
\* stored and the visitor is still in CALLBACK_REQUEST
C24_Witness ==
    /\ lastReply.op = "chat" /\ lastReply.id = "s1"
    /\ lastReply.status = "bot_response" /\ lastReply.message = "text"
    /\ StoredState("s1") = CALLBACK_REQUEST
    /\ leads = {}

\* C25: a decline leaves a visitor that getSessionState reports in
\* SEEKING_HANDOFF in LEAD_CAPTURE and a visitor in any other state in that
\* state; a message matching an agreement pattern from a visitor in
\* LEAD_CAPTURE puts it in CALLBACK_REQUEST, where it stays at the end of the
\* request unless the answer carries a lead that is saved or the escape marker
C25_DeclineThenAgreement ==
    \A s \in MainSessions :
       LET pre == getSessionState(World, s, PersistentOf(s)).r IN
       /\ \A slackOk \in BOOLEAN :
             getSessionState(routeDecline(World, s, PersistentOf(s), slackOk).w,
                             s, PersistentOf(s)).r
               = IF pre = SEEKING_HANDOFF THEN LEAD_CAPTURE ELSE pre
       /\ pre = LEAD_CAPTURE
            => \A lead \in Leads, shouldOffer \in BOOLEAN, escape \in BOOLEAN :
                 getSessionState(
                     handleChatMessage(World, s, PersistentOf(s), "chat", "ok",
                                       TRUE, shouldOffer, lead, escape).w,
                     s, PersistentOf(s)).r
                   = IF escape \/ (/\ leadParts(lead.text).found
                                   /\ Len(leadParts(lead.text).parts) >= 4
                                   /\ lead.dbOk)
                     THEN NORMAL_CHAT ELSE CALLBACK_REQUEST

\* the visitor has declined an offer and has then agreed to leave its details
C25_Witness ==
    /\ lastReply.op = "chat" /\ lastReply.id = "s1"
    /\ StoredState("s1") = CALLBACK_REQUEST
    /\ StoredRecord("s1").handoffOffered
    /\ leads = {}

\* C26: the disconnect of the socket of a session of a visitor with a durable
\* identity leaves, when a request of the visitor is pending, the request,
\* its timer key, the handoff timeout, the waiting ticker, the waiting
\* sessions and the Slack messages as they were, and, when an agent is
\* connected to the visitor, the connection, its ttl, the visitor's user
\* state, the duration ticker and the inactivity timeout as they were; it
\* emits nothing
C26_DisconnectKeepsBookkeeping ==
    [][\A s \in S :
         (PersistentOf(s) # NONE /\ SocketDisconnect(s))
           => /\ getHandoffState(World, PersistentOf(s)) # NoHandoff
                 => UNCHANGED <<handoffState, timerStart, handoffTimeouts,
                                updateIntervals, waitingSessions, scheduled,
                                slackMessages>>
              /\ ActiveLive(PersistentOf(s))
                 => UNCHANGED <<activeSessions, activeTtl, userState,
                                sessionDurationIntervals, userInactivityTimeouts,
                                scheduled, slackMessages>>
              /\ emitted' = {}]_vars

\* the socket of the session the visitor was rebound to has gone while the
\* request was pending, before any agent took it
C26_Witness ==
    /\ lastReply.op = "disconnect" /\ lastReply.id = "s2"
    /\ handoffState["p1"].sessionId = "s2" /\ handoffState["p1"].exp > now
    /\ waitingSessions["s2"] = NoWaiting
    /\ handoffTimeouts["p1"] # NoTimeout

\* C27: with no accept under way, binding a session id of the visitor to a
\* visitor with a pending request leaves the request as it was but for its
\* sessionId, which is the bound one; binding it to a visitor with a
\* connected agent leaves the connection as it was but for its
\* currentSessionId, which is the bound one; either way the timer key, the
\* handoff timeout, the tickers, the waiting sessions and the Slack messages
\* are as they were and nothing is emitted
C27_RebindChangesOnlyPointer ==
    \A s \in Rebound :
       LET p == PersistentOf(s)
           w == reconnectPersistentUser(World, p, s)
       IN (\A a \in Agents : accept[a].pc \in {"idle", "done"})
          => /\ getHandoffState(World, p) # NoHandoff
                => w.handoffState[p] = [handoffState[p] EXCEPT !.sessionId = s]
             /\ ActiveLive(p)
                => w.activeSessions[p] = [activeSessions[p] EXCEPT !.currentSessionId = s]
             /\ (getHandoffState(World, p) # NoHandoff \/ ActiveLive(p))
                => /\ w.timerStart = timerStart
                   /\ w.handoffTimeouts = handoffTimeouts
                   /\ w.updateIntervals = updateIntervals
                   /\ w.sessionDurationIntervals = sessionDurationIntervals
                   /\ w.waitingSessions = waitingSessions
                   /\ w.scheduled = scheduled
                   /\ w.slackMessages = slackMessages
                   /\ w.emitted = {}

\* C28: with no accept under way, a request of a connected visitor writes
\* its session id into the connection and no other step changes the session
\* id of a connection that stays, and every agent_message and every
\* agent_disconnected event of a connected visitor goes to the session id of
\* the connection, or to the one of the request being handled when the event
\* comes from a request of the visitor
C28_AgentEventsToNewestSession ==
    [][/\ (/\ ActiveLive("p1") /\ ActiveLive("p1")'
           /\ \A a \in Agents : accept[a].pc \in {"idle", "done"})
           => activeSessions'["p1"].currentSessionId
                = IF lastReply'.op \in {"chat", "requestHumanAgent"} THEN lastReply'.id
                  ELSE activeSessions["p1"].currentSessionId
       /\ ActiveLive("p1")
           => \A e \in emitted' :
                e[2] \in {"agent_message", "agent_disconnected"}
                  => e[1] = IF lastReply'.op = "chat" THEN lastReply'.id
                            ELSE activeSessions["p1"].currentSessionId]_vars

\* C29: with the store reachable, what is written through one session id of
\* a visitor is read through every session id of that visitor: the record
\* after setSessionState, the flag after markHandoffOffered and the time of
\* the claim after markHumanHandoffAccepted; getSessionState gives the state
\* written, or HUMAN_CONNECTED while an agent is connected; and as long as
\* the stored record lives every session id of the visitor reads the same
\* record
C29_RecordKeyedByVisitor ==
    isConnected
      => \A s \in Rebound, s2 \in Rebound :
           LET p == PersistentOf(s) IN
           /\ \A state \in SessionState :
                 LET w1 == setSessionState(World, s, state, p) IN
                 /\ getSession(w1, s2, p).sessions[s2] = w1.sessions[s]
                 /\ w1.sessions[s].state = state
                 /\ getSessionState(w1, s2, p).r
                      = IF getActiveSession(World, p).r # NoActive
                        THEN HUMAN_CONNECTED ELSE state
           /\ getSession(markHandoffOffered(World, s, p), s2, p)
                 .sessions[s2].handoffOffered
           /\ getSession(markHumanHandoffAccepted(World, s, p), s2, p)
                 .sessions[s2].lastHandoffTime = now
           /\ Live(sessionStateKey[p].exp)
                => getSession(World, s, p).sessions[s]
                     = getSession(World, s2, p).sessions[s2]

\* the visitor has used both session ids and the record last written through
\* s1 is not the one the process holds for s2
C29_Witness ==
    /\ isConnected
    /\ Live(sessionStateKey["p1"].exp)
    /\ lastReply.op = "chat" /\ lastReply.id = "s1"
    /\ sessionStateKey["p1"].rec = sessions["s1"]
    /\ sessions["s2"] # NoSession
    /\ sessions["s2"] # sessions["s1"]

\* C30: with the store unreachable no click on Accept ends with the error of
\* identifiers that could not be resolved
C30_ClaimServedInProcess ==
    ~isConnected
      => \A a \in Agents :
           ~(/\ accept[a].pc = "done"
             /\ accept[a].status = "error"
             /\ accept[a].persistentUserId = NONE)

\* C31: a handoff request of a visitor without a durable identity does not
\* stay published for ever: an accept keyed by its session id claims it, or
\* its Slack message is closed and the request reclaimed.
C31_StandaloneRequestEnds ==
    \A s \in Standalone :
       (isConnected /\ waitingSessions[s] # NoWaiting)
         ~> (\/ \E a \in Agents : accept[a].status = "accepted" /\ accept[a].sessionId = s
             \/ waitingSessions[s] = NoWaiting
             \/ slackMessages[waitingSessions[s].messageTs].status # "open")

\* the request or the connection of visitor p is ended by this step: End
\* Chat, the handoff timeout, the inactivity timeout, the forced cleanup
Ended(p) ==
    \/ lastReply'.op = "endChat" /\ lastReply'.status = "ended"
    \/ HandoffTimeoutFires(p)
    \/ InactivityTimeoutFires(p) /\ ActiveLive(p) /\ ~ActiveLive(p)'
    \/ lastReply'.op = "chat" /\ lastReply'.status = "thread_deleted"

\* C32: when a connection or a pending request of a visitor is ended (End
\* Chat, handoff timeout, inactivity timeout, forced cleanup), no claim being
\* in progress, and the visitor is left with neither of them, no timer of any
\* kind is left live for the visitor.
C32_EndCancelsAllTimers ==
    [][\A p \in P :
          (/\ Ended(p)
           /\ \A a \in Agents : accept[a].pc \in {"idle", "done"}
           /\ handoffState'[p] = NoHandoff /\ ~ActiveLive(p)')
            => {t \in scheduled' : t.key = p} = {}]_vars

\* C33: while the request of a visitor is waiting (published, unclaimed, its
\* handoff timeout not yet come) and the store is reachable, the pending
\* request record of the visitor is in the store.
C33_PendingRecordOutlivesWait ==
    \A s \in MainSessions :
       (isConnected /\ Waiting(s)) => handoffState[PersistentOf(s)] # NoHandoff

\* C34: retryWithBackoff with the default budget calls the API at most four
\* times and ends: it returns the first completion, throws the first error
\* that is not retryable without another attempt, throws the last error when
\* the budget is used up, and sleeps 1000, 2000 and 4000 ms before its
\* retries.
C34_RetryBudget ==
    /\ [](/\ retry.calls <= 4
          /\ Len(retry.delays) <= 3
          /\ retry.delays = SubSeq(<<1000, 2000, 4000>>, 1, Len(retry.delays))
          /\ retry.pc = "calling" => retry.calls = Len(retry.delays)
          /\ retry.pc = "sleeping"
               => /\ retry.calls = Len(retry.delays)
                  /\ ~retry.last.ok /\ isRetryableError(retry.last)
          /\ retry.pc = "returned"
               => /\ retry.calls = Len(retry.delays) + 1
                  /\ retry.last.ok /\ retry.result = retry.last
          /\ retry.pc = "threw"
               => /\ retry.calls = Len(retry.delays) + 1
                  /\ ~retry.last.ok /\ retry.result = retry.last
                  /\ isRetryableError(retry.last) => retry.calls = 4)
    /\ (retry.pc = "calling") ~> (retry.pc \in {"returned", "threw"})

\* the budget is used up: four attempts, three sleeps, the last error thrown
C34_Witness ==
    /\ retry.pc = "threw"
    /\ retry.calls = 4
    /\ retry.delays = <<1000, 2000, 4000>>
    /\ retry.result.status = 503

\* C35: the history stored for an identifier has at most 10 messages, user
\* and assistant in turn, and they are the latest exchanges given to
\* addMessage for the identifier, in their order; a call of addMessage with
\* the store reachable adds its exchange and drops the oldest one beyond five.
C35_HistoryIsLastFive ==
    /\ [](\A id \in ConversationIds :
            LET history == conversation[id].history
                mine == SelectSeq(interactions, LAMBDA e : e.id = id)
                k == Len(history) \div 2
            IN /\ Len(history) <= 10
               /\ Len(history) % 2 = 0
               /\ \A i \in 1..Len(history) :
                     history[i].role = IF i % 2 = 1 THEN "user" ELSE "assistant"
               /\ k <= Len(mine)
               /\ \A j \in 1..k :
                     /\ history[2 * j - 1].content = mine[Len(mine) - k + j].n
                     /\ history[2 * j].content = mine[Len(mine) - k + j].n)
    /\ [][\A id \in ConversationIds :
            (/\ isConnected
             /\ Len(interactions') = Len(interactions) + 1
             /\ interactions'[Len(interactions')].id = id)
              => Len(conversation'[id].history) =
                   (IF Len(conversation[id].history) + 2 > 10 THEN 10
                    ELSE Len(conversation[id].history) + 2)]_vars

\* six exchanges of one visitor: the first one is gone from its history
C35_Witness ==
    /\ Len(interactions) = 6
    /\ Len(conversation["p1"].history) = 10
    /\ conversation["p1"].history[1].content = 2
    /\ conversation["p1"].history[10].content = 6

\* C36: a call of the visitor's side (updateSessionActivity,
\* markHandoffOffered) that completes, the store being reachable and holding
\* the record, leaves in the record the lastHandoffTime and the state that
\* the claim wrote there while the call was under way.
C36_NoLostUpdate ==
    [][\A s \in MainSessions :
          (/\ isConnected
           /\ held[s] # NoCall /\ held'[s] = NoCall
           /\ getSessionFromRedis(World, PersistentOf(s)) # NoSession)
            => /\ StoredRecord(s)'.lastHandoffTime = StoredRecord(s).lastHandoffTime
               /\ StoredRecord(s)'.state = StoredRecord(s).state]_vars

C38_FlagIffConnection ==
    \A p \in P :
        (\A a \in Agents : accept[a].pc \in {"idle", "done"})
          => (getUserState(World, p).agentConnected <=> ActiveLive(p))

\* C39: a request or a decline of one visitor leaves alone every waiting-time
\* interval started for another visitor, the pending request, the handoff
\* timeout, the inactivity timeout and the connection of every other durable
\* identity, and the waiting entry of every session of another visitor; this
\* holds for visitors without a durable identity as well
C39_OtherVisitorsUntouched ==
    [][\A s \in MainSessions \cup Anonymous :
          (HumanHandoffRequest(s) \/ DeclineHumanHandoff(s))
            => /\ \A k \in IntervalKeys :
                    (/\ updateIntervals[k].live
                     /\ VisitorOf(updateIntervals[k].sessionId) # VisitorOf(s))
                      => /\ updateIntervals'[k] = updateIntervals[k]
                         /\ Timer("waiting", k, updateIntervals[k].messageTs)
                              \in scheduled'
               /\ \A p \in P \ {VisitorOf(s)} :
                    /\ handoffState'[p] = handoffState[p]
                    /\ handoffTimeouts'[p] = handoffTimeouts[p]
                    /\ userInactivityTimeouts'[p] = userInactivityTimeouts[p]
                    /\ activeSessions'[p] = activeSessions[p]
               /\ \A t \in S :
                    VisitorOf(t) # VisitorOf(s)
                      => waitingSessions'[t] = waitingSessions[t]]_vars

\* C40: while the inactivity timer of a visitor is pending and a connection
\* record of the visitor is stored, the record's ttl key lasts beyond the time
\* at which the timer fires, whatever messages and reconnections came before
C40_RecordOutlastsTimer ==
    \A p \in P :
        (/\ userInactivityTimeouts[p] # 0
         /\ now <= userInactivityTimeouts[p]
         /\ activeSessions[p] # NoActive)
          => activeTtl[p] > userInactivityTimeouts[p]

\* a conversation still going on, with its timer pending, after the life that
\* the record got at the claim is over
C40_Witness ==
    /\ ActiveLive("p1")
    /\ activeSessions["p1"].connectedAt + ActiveTtl <= now
    /\ userInactivityTimeouts["p1"] > now
    /\ lastReply.status = "sent_to_human"

====
